---- MODULE Spec2Model ----
(***************************************************************************)
(* URL verification of the ECSSR assistant backend.                        *)
(*                                                                         *)
(* Two revisions of the verifier are in the repository and both are        *)
(* modelled: v15.1 (src/unnamed/part_000: cleanUrl, isValidUrl, HEAD with  *)
(* one retry after a timeout, GET after 403/405, batches of 3) and v15.0   *)
(* (src/unnamed/part_007: filterUaeDomains, HEAD, GET after 405 and after  *)
(* any HEAD failure, one Promise.all over the whole list).                 *)
(*                                                                         *)
(* Strings are sequences of one-character strings, so that trim, includes, *)
(* endsWith, toLowerCase, decodeURIComponent and the URL parser are        *)
(* computed on the characters.                                             *)
(***************************************************************************)
EXTENDS Integers, Sequences, FiniteSets, TLC

(***************************************************************************)
(* JavaScript string built-ins used by the verifier.                       *)
(***************************************************************************)

\* the whitespace String.prototype.trim removes (the model's alphabet has " "
\* and the line feed)
IsSpace(c) == c \in {" ", "\n"}

RECURSIVE DropLeading(_)
DropLeading(s) ==
    IF s = <<>> THEN <<>>
    ELSE IF IsSpace(Head(s)) THEN DropLeading(Tail(s)) ELSE s

RECURSIVE DropTrailing(_)
DropTrailing(s) ==
    IF s = <<>> THEN <<>>
    ELSE IF IsSpace(s[Len(s)]) THEN DropTrailing(SubSeq(s, 1, Len(s) - 1)) ELSE s

\* String.prototype.trim
Trim(s) == DropTrailing(DropLeading(s))

\* sub occurs in s at position i
MatchesAt(s, sub, i) ==
    /\ i >= 1
    /\ i + Len(sub) - 1 <= Len(s)
    /\ SubSeq(s, i, i + Len(sub) - 1) = sub

\* String.prototype.includes
Includes(s, sub) == \E i \in 1..(Len(s) + 1) : MatchesAt(s, sub, i)

\* String.prototype.endsWith
EndsWith(s, suf) == MatchesAt(s, suf, Len(s) - Len(suf) + 1)

UpperChars == <<"A","B","C","D","E","F","G","H","I","J","K","L","M",
                "N","O","P","Q","R","S","T","U","V","W","X","Y","Z">>

LowerChars == <<"a","b","c","d","e","f","g","h","i","j","k","l","m",
                "n","o","p","q","r","s","t","u","v","w","x","y","z">>

DigitChars == <<"0","1","2","3","4","5","6","7","8","9">>

RangeOf(seq) == {seq[i] : i \in 1..Len(seq)}

UpperSet == RangeOf(UpperChars)

AlphaSet == RangeOf(UpperChars) \cup RangeOf(LowerChars)

DigitSet == RangeOf(DigitChars)

HexSet == DigitSet \cup {"A","B","C","D","E","F","a","b","c","d","e","f"}

LowerOf == [c \in UpperSet |->
              LowerChars[CHOOSE i \in 1..Len(UpperChars) : UpperChars[i] = c]]

LowerChar(c) == IF c \in UpperSet THEN LowerOf[c] ELSE c

\* String.prototype.toLowerCase
ToLowerCase(s) == [i \in 1..Len(s) |-> LowerChar(s[i])]

IsAlpha(c) == c \in AlphaSet

IsDigit(c) == c \in DigitSet

IsHex(c) == c \in HexSet

\* the ASCII characters the escapes of the modelled inputs stand for;
\* an escape outside this table is treated like a malformed one
PctTable == [p \in {<<"2","0">>, <<"2","5">>, <<"2","E">>, <<"2","F">>,
                    <<"3","A">>, <<"3","F">>} |->
               CASE p = <<"2","0">> -> " "
                 [] p = <<"2","5">> -> "%"
                 [] p = <<"2","E">> -> "."
                 [] p = <<"2","F">> -> "/"
                 [] p = <<"3","A">> -> ":"
                 [] p = <<"3","F">> -> "?"]

\* decodeURIComponent: one pass over the string, every %XX replaced by its
\* character; a "%" not followed by two hex digits throws URIError (ok = FALSE)
RECURSIVE DecodeFrom(_, _)
DecodeFrom(s, i) ==
    IF i > Len(s) THEN [ok |-> TRUE, s |-> <<>>]
    ELSE IF s[i] # "%"
         THEN LET rest == DecodeFrom(s, i + 1)
              IN  [ok |-> rest.ok, s |-> <<s[i]>> \o rest.s]
    ELSE IF i + 2 > Len(s) THEN [ok |-> FALSE, s |-> <<>>]
    ELSE LET pair == <<s[i + 1], s[i + 2]>>
         IN  IF ~(IsHex(pair[1]) /\ IsHex(pair[2])) \/ pair \notin DOMAIN PctTable
             THEN [ok |-> FALSE, s |-> <<>>]
             ELSE LET rest == DecodeFrom(s, i + 3)
                  IN  [ok |-> rest.ok, s |-> <<PctTable[pair]>> \o rest.s]

DecodeURIComponent(s) == DecodeFrom(s, 1)

(***************************************************************************)
(* new URL(s): the WHATWG parser on absolute URLs without userinfo or port.*)
(* Leading and trailing spaces are stripped, the scheme runs to the first  *)
(* ":" and is lower-cased, a special scheme (http, https, ftp) skips the   *)
(* slashes after it and needs a non-empty host, the host runs to the first *)
(* "/", "?" or "#" and is lower-cased.  ok = FALSE is the TypeError.       *)
(***************************************************************************)
S_http == <<"h","t","t","p">>

S_https == <<"h","t","t","p","s">>

S_ftp == <<"f","t","p">>

SpecialSchemes == {S_http, S_https, S_ftp}

IsSchemeChar(c) == IsAlpha(c) \/ IsDigit(c) \/ c \in {"+", "-", "."}

IsHostChar(c) == IsAlpha(c) \/ IsDigit(c) \/ c \in {"-", "."}

\* index of the first character of s at or after i that is in stops, or Len(s)+1
RECURSIVE FirstOf(_, _, _)
FirstOf(s, stops, i) ==
    IF i > Len(s) THEN Len(s) + 1
    ELSE IF s[i] \in stops THEN i ELSE FirstOf(s, stops, i + 1)

RECURSIVE SkipSlashes(_, _)
SkipSlashes(s, i) ==
    IF i <= Len(s) /\ s[i] \in {"/", "\\"} THEN SkipSlashes(s, i + 1) ELSE i

UrlFailure == [ok |-> FALSE, protocol |-> <<>>, hostname |-> <<>>]

\* the host state: a special scheme needs a host, and no host holds a
\* forbidden character
ParsedHost(scheme, special, host) ==
    IF \/ special /\ host = <<>>
       \/ \E i \in 1..Len(host) : ~IsHostChar(host[i])
    THEN UrlFailure
    ELSE [ok |-> TRUE, protocol |-> scheme \o <<":">>, hostname |-> host]

\* the authority of s starts at from
ParsedAuthority(s, scheme, special, hasHost, from) ==
    ParsedHost(scheme, special,
               IF hasHost
               THEN ToLowerCase(SubSeq(s, from, FirstOf(s, {"/", "?", "#"}, from) - 1))
               ELSE <<>>)

\* the scheme of s ends before colon
ParsedScheme(s, colon, scheme) ==
    ParsedAuthority(s, scheme, scheme \in SpecialSchemes,
                    scheme \in SpecialSchemes \/ MatchesAt(s, <<"/","/">>, colon + 1),
                    IF scheme \in SpecialSchemes
                    THEN SkipSlashes(s, colon + 1) ELSE colon + 3)

ParsedFrom(s, colon) ==
    IF \/ colon > Len(s)
       \/ colon = 1
       \/ ~IsAlpha(s[1])
       \/ \E i \in 1..(colon - 1) : ~IsSchemeChar(s[i])
    THEN UrlFailure
    ELSE ParsedScheme(s, colon, ToLowerCase(SubSeq(s, 1, colon - 1)))

ParsedTrimmed(s) == ParsedFrom(s, FirstOf(s, {":"}, 1))

ParseURL(str) == ParsedTrimmed(Trim(str))

(***************************************************************************)
(* The inputs: concrete strings an upstream API can hand to the verifier.  *)
(***************************************************************************)
U_wam == \* "https://wam.ae/f"
    <<"h","t","t","p","s",":","/","/","w","a","m",".","a","e","/","f">>

U_wamSp == \* " https://wam.ae/f "
    <<" ","h","t","t","p","s",":","/","/","w","a","m",".","a","e","/","f"," ">>

U_enc == \* "https%3A%2F%2Fwam.ae%2Ff"
    <<"h","t","t","p","s","%","3","A","%","2","F","%","2","F","w","a","m",".","a","e","%","2","F","f">>

U_enc2 == \* "https%253A%252F%252Fwam.ae%252Ff"
    <<"h","t","t","p","s","%","2","5","3","A","%","2","5","2","F","%","2","5","2","F","w","a","m",".","a","e","%","2","5","2","F","f">>

U_gov == \* "http://u.gov.ae/"
    <<"h","t","t","p",":","/","/","u",".","g","o","v",".","a","e","/">>

U_up == \* "https://WAM.AE/f"
    <<"h","t","t","p","s",":","/","/","W","A","M",".","A","E","/","f">>

U_com == \* "https://ex.com/b"
    <<"h","t","t","p","s",":","/","/","e","x",".","c","o","m","/","b">>

U_comAe == \* "https://ex.com/x.ae"
    <<"h","t","t","p","s",":","/","/","e","x",".","c","o","m","/","x",".","a","e">>

U_ftp == \* "ftp://wam.ae/f"
    <<"f","t","p",":","/","/","w","a","m",".","a","e","/","f">>

U_short == \* "http://ab/"
    <<"h","t","t","p",":","/","/","a","b","/">>

U_bad == \* "not a url"
    <<"n","o","t"," ","a"," ","u","r","l">>

U_badAe == \* "see wam.ae"
    <<"s","e","e"," ","w","a","m",".","a","e">>

U_pct == \* "wam.ae/100%"
    <<"w","a","m",".","a","e","/","1","0","0","%">>

Catalogue ==
    {U_wam, U_wamSp, U_enc, U_enc2, U_gov, U_up, U_com, U_comAe,
     U_ftp, U_short, U_bad, U_badAe, U_pct}

(***************************************************************************)
(* v15.1 URL validation and cleaning (src/unnamed/part_000).               *)
(***************************************************************************)
P_http == <<"h","t","t","p",":">>

P_https == <<"h","t","t","p","s",":">>

DotAe == <<".","a","e">>

\* the shortest hostname isValidUrl accepts
MinHostLen == 3

\* the checks of isValidUrl on the parsed URL
AcceptedUrl(url) ==
    IF ~url.ok THEN FALSE
    ELSE IF url.protocol \notin {P_http, P_https} THEN FALSE
    ELSE IF url.hostname = <<>> \/ Len(url.hostname) < MinHostLen THEN FALSE
    ELSE TRUE

isValidUrl(urlString) == AcceptedUrl(ParseURL(urlString))

\* cleanUrl after the trim and the decoding attempt.  url is reassigned by
\* "url = decodeURIComponent(url)", so the final "return url" hands back the
\* decoded string when the decoding did not throw, valid or not, and the
\* trimmed string when it threw
CleanDecoded(trimmed, decoded) ==
    IF decoded.ok
    THEN (IF isValidUrl(decoded.s) THEN decoded.s ELSE decoded.s)
    ELSE trimmed

CleanTrimmed(trimmed) ==
    IF isValidUrl(trimmed) THEN trimmed
    ELSE CleanDecoded(trimmed, DecodeURIComponent(trimmed))

cleanUrl(url) == CleanTrimmed(Trim(url))

(***************************************************************************)
(* v15.0 domain filter (src/unnamed/part_007).                             *)
(***************************************************************************)
UAE_SUFFIX == DotAe

HostEndsWithSuffix(url) ==
    IF url.ok THEN EndsWith(url.hostname, UAE_SUFFIX) ELSE FALSE

isUaeDomain(urlStr) == HostEndsWithSuffix(ParseURL(ToLowerCase(Trim(urlStr))))

\* Array.from(new Set(list)): first occurrences, in order
AppendNew(init, last) ==
    IF last \in RangeOf(init) THEN init ELSE Append(init, last)

RECURSIVE Unique(_)
Unique(list) ==
    IF list = <<>> THEN <<>>
    ELSE AppendNew(Unique(SubSeq(list, 1, Len(list) - 1)), list[Len(list)])

\* the argument may be missing: None stands for undefined, a value no list of
\* strings equals (no string has "undefined" as one of its characters)
None == << <<"undefined">> >>

\* filter(Boolean) drops the empty string
Truthy(x) == x # <<>>

filterUaeDomains(urls) ==
    SelectSeq(Unique(SelectSeq(IF urls = None THEN <<>> ELSE urls, Truthy)),
              isUaeDomain)

(***************************************************************************)
(* fetch: what one outbound request can end in.  A response carries its    *)
(* status; AbortError is the abort of the request's own timer, FetchError  *)
(* any other rejection.  node-fetch rejects a URL that is not http(s)      *)
(* without sending anything.                                               *)
(***************************************************************************)
Statuses == {200, 301, 403, 404, 405, 500}

Response(status) == [kind |-> "response", status |-> status]

AbortError == [kind |-> "AbortError", status |-> 0]

FetchError == [kind |-> "FetchError", status |-> 0]

Failures == {AbortError, FetchError}

OutcomesFor(url) ==
    IF url.ok /\ url.protocol \in {P_http, P_https}
    THEN {Response(s) : s \in Statuses} \cup Failures
    ELSE {FetchError}

FetchOutcomes(urlString) == OutcomesFor(ParseURL(urlString))

\* response.ok
Ok(o) == o.status >= 200 /\ o.status <= 299

Redirect(o) == o.status >= 300 /\ o.status < 400

(***************************************************************************)
(* One probe: a call of verifyURL, suspended at an await or resolved.      *)
(*   pc  "head"     awaiting the HEAD fetch                                *)
(*       "backoff"  awaiting the retry timer                               *)
(*       "get"      awaiting the GET fetch of verifyURLWithGET             *)
(*       "done"     resolved (res "true"/"false") or rejected ("reject")   *)
(***************************************************************************)
Awaiting(url, attempt, pc) ==
    [url |-> url, attempt |-> attempt, pc |-> pc, res |-> "pending"]

Resolved(url, attempt, valid) ==
    [url |-> url, attempt |-> attempt, pc |-> "done",
     res |-> IF valid THEN "true" ELSE "false"]

Rejected(url, attempt) ==
    [url |-> url, attempt |-> attempt, pc |-> "done", res |-> "reject"]

MAX_ATTEMPTS == 2

BACKOFF_MS == 1000

\* ---- v15.1 (src/unnamed/part_000) ----

\* verifyURL up to its first await: clean, validate, send the HEAD request
HeadRequest(cleaned, attempt) ==
    IF ~isValidUrl(cleaned)
    THEN Resolved(cleaned, attempt, FALSE)
    ELSE Awaiting(cleaned, attempt, "head")

verifyURL(url, attempt) == HeadRequest(cleanUrl(url), attempt)

\* a variant without the catch block: a failed GET fetch rejects the promise
verifyURLWithGET_uncaught(p, o) ==
    IF o.kind = "response"
    THEN (IF Ok(o) \/ Redirect(o)
          THEN Resolved(p.url, p.attempt, TRUE)
          ELSE Resolved(p.url, p.attempt, FALSE))
    ELSE Rejected(p.url, p.attempt)

\* verifyURLWithGET once its GET fetch has settled
verifyURLWithGET_settled(p, o) ==
    IF o.kind = "response"
    THEN (IF Ok(o) \/ Redirect(o)
          THEN Resolved(p.url, p.attempt, TRUE)
          ELSE Resolved(p.url, p.attempt, FALSE))
    ELSE (IF Includes(p.url, DotAe)
          THEN Resolved(p.url, p.attempt, TRUE)
          ELSE Resolved(p.url, p.attempt, FALSE))

\* verifyURL once its HEAD fetch has settled: the status branches, and the
\* catch block with the retry on AbortError and the '.ae' substring policy
verifyURL_settled(p, o) ==
    IF o.kind = "response"
    THEN (IF Ok(o) \/ Redirect(o)
          THEN Resolved(p.url, p.attempt, TRUE)
          ELSE IF o.status = 405 \/ o.status = 403
          THEN Awaiting(p.url, p.attempt, "get")
          ELSE Resolved(p.url, p.attempt, FALSE))
    ELSE IF o.kind = "AbortError"
    THEN (IF p.attempt < MAX_ATTEMPTS
          THEN Awaiting(p.url, p.attempt, "backoff")
          ELSE IF Includes(p.url, DotAe)
          THEN Resolved(p.url, p.attempt, TRUE)
          ELSE Resolved(p.url, p.attempt, FALSE))
    ELSE (IF Includes(p.url, DotAe)
          THEN Resolved(p.url, p.attempt, TRUE)
          ELSE Resolved(p.url, p.attempt, FALSE))

\* a variant that retries without counting the attempt
verifyURL_retry_uncounted(p) == verifyURL(p.url, p.attempt)

\* the retry once the backoff timer has fired: verifyURL(url, attempt + 1)
verifyURL_retry(p) == verifyURL(p.url, p.attempt + 1)

\* ---- v15.0 (src/unnamed/part_007) ----

\* verifyURL up to its first await: the HEAD request goes out on the raw url
verifyURL_v150(url) == Awaiting(url, 1, "head")

verifyURLWithGET_v150_settled(p, o) ==
    IF o.kind = "response"
    THEN (IF Ok(o)
          THEN Resolved(p.url, p.attempt, TRUE)
          ELSE Resolved(p.url, p.attempt, FALSE))
    ELSE Resolved(p.url, p.attempt, FALSE)

verifyURL_v150_settled(p, o) ==
    IF o.kind = "response"
    THEN (IF Ok(o)
          THEN Resolved(p.url, p.attempt, TRUE)
          ELSE IF o.status = 405
          THEN Awaiting(p.url, p.attempt, "get")
          ELSE Resolved(p.url, p.attempt, FALSE))
    ELSE IF o.kind = "AbortError"
    THEN Awaiting(p.url, p.attempt, "get")
    ELSE Awaiting(p.url, p.attempt, "get")

\* ---- the revision under analysis selects the code ----
V151 == "v15.1"

V150 == "v15.0"

Revisions == {V151, V150}

ProbeCall(r, url) == IF r = V151 THEN verifyURL(url, 1) ELSE verifyURL_v150(url)

ProbeHeadSettled(r, p, o) ==
    IF r = V151 THEN verifyURL_settled(p, o) ELSE verifyURL_v150_settled(p, o)

ProbeGetSettled(r, p, o) ==
    IF r = V151 THEN verifyURLWithGET_settled(p, o)
    ELSE verifyURLWithGET_v150_settled(p, o)

(***************************************************************************)
(* verifyURLs                                                              *)
(***************************************************************************)
\* urls.map(url => cleanUrl(url))
MapCleanUrl(list) == [k \in 1..Len(list) |-> cleanUrl(list[k])]

\* results.map(r => r.url)
MapUrl(rs) == [k \in 1..Len(rs) |-> rs[k].url]

IsEmpty(urls) == urls = None \/ urls = <<>>

\* v15.1: urls.map(cleanUrl).filter(isValidUrl)
CleanedUrls(urls) == SelectSeq(MapCleanUrl(urls), isValidUrl)

\* a variant that probes every element, without the syntax/domain filter
Candidates_unfiltered(r, urls) == IF IsEmpty(urls) THEN <<>> ELSE urls

\* the candidates verifyURLs goes on to probe
Candidates(r, urls) ==
    IF r = V151
    THEN (IF IsEmpty(urls) THEN <<>> ELSE CleanedUrls(urls))
    ELSE filterUaeDomains(urls)

batchSize == 3

\* a variant without batches: every candidate left is probed at once
BatchEnd_whole(r, list, from) == Len(list)

\* v15.1 probes slices of batchSize, v15.0 the whole list in one Promise.all
BatchEnd(r, list, from) ==
    IF r = V151
    THEN (IF from + batchSize < Len(list) THEN from + batchSize ELSE Len(list))
    ELSE Len(list)

\* cleanedUrls.slice(i, i + batchSize), i counted from 0
Batch(r, list, from) == SubSeq(list, from + 1, BatchEnd(r, list, from))

IsValid(p) == p.res = "true"

ResultValid(r) == r.valid

\* a variant that pushes each url as its probe completes
PushValid_byCompletion(valid, batch, ps, order) ==
    valid \o MapUrl(SelectSeq([k \in 1..Len(order) |-> ps[order[k]]], IsValid))

\* validUrls.push(...results.filter(r => r.valid).map(r => r.url)): results is
\* the array Promise.all builds, in the order of the batch whatever the order
\* in which the probes completed; r.url is the url the batch element held
PushValid(valid, batch, ps, order) ==
    valid \o MapUrl(
                 SelectSeq([k \in 1..Len(batch) |->
                               [url |-> batch[k], valid |-> ps[k].res = "true"]],
                           ResultValid))

(***************************************************************************)
(* processPerplexityResponse (v15.1) and the tail of searchWithPerplexity  *)
(* (v15.0): from the citations of the search API to the citations handed   *)
(* to /api/chat.                                                           *)
(***************************************************************************)
MAX_CITATIONS == 5

Slice5(list) == SubSeq(list, 1, IF Len(list) < MAX_CITATIONS THEN Len(list) ELSE MAX_CITATIONS)

CleanedIncludesAe(url) == Includes(cleanUrl(url), DotAe)

\* the domain filter applied to data.citations before verification
UaeCitations(r, cits) ==
    IF r = V151
    THEN SelectSeq(IF cits = None THEN <<>> ELSE cits, CleanedIncludesAe)
    ELSE filterUaeDomains(cits)

\* the citations returned once verifyURLs has settled
ReturnedCitations(r, uae, status, valid) ==
    IF status = "rejected" THEN <<>>
    ELSE IF r = V151
    THEN (IF Len(valid) = 0 THEN Slice5(uae) ELSE Slice5(valid))
    ELSE valid

(***************************************************************************)
(* Rate limiting: checkRateLimit (src/unnamed/part_000 28-40; the same     *)
(* function is in src/server.js and src/backend/server.js).  The Map is a  *)
(* function from the ips stored to their lists of timestamps.              *)
(***************************************************************************)
RATE_LIMIT == 100

RATE_WINDOW == 60 * 60 * 1000

\* new Map()
EmptyMap == [k \in {} |-> <<>>]

\* requestCounts.get(ip) || []
Stored(rc, ip) == IF ip \in DOMAIN rc THEN rc[ip] ELSE <<>>

\* userRequests.filter((t) => now - t < RATE_WINDOW)
Recent(userRequests, at) ==
    SelectSeq(userRequests, LAMBDA t : at - t < RATE_WINDOW)

\* a variant that stores the list under every ip
MapSet_all(rc, ip, list) == [k \in DOMAIN rc \cup {ip} |-> list]

\* requestCounts.set(ip, list)
MapSet(rc, ip, list) ==
    [k \in DOMAIN rc \cup {ip} |-> IF k = ip THEN list ELSE rc[k]]

\* a variant that rejects only above the limit
RateChecked_offByOne(rc, ip, at, recent) ==
    IF Len(recent) > RATE_LIMIT
    THEN [returned |-> FALSE, requestCounts |-> rc]
    ELSE [returned |-> TRUE, requestCounts |-> MapSet(rc, ip, Append(recent, at))]

\* checkRateLimit once recent is computed: what it returns and the Map after
RateChecked(rc, ip, at, recent) ==
    IF Len(recent) >= RATE_LIMIT
    THEN [returned |-> FALSE, requestCounts |-> rc]
    ELSE [returned |-> TRUE, requestCounts |-> MapSet(rc, ip, Append(recent, at))]

\* checkRateLimit(ip) called when Date.now() returns at
checkRateLimit(rc, ip, at) == RateChecked(rc, ip, at, Recent(Stored(rc, ip), at))

(***************************************************************************)
(* State                                                                   *)
(***************************************************************************)
VARIABLES
    rev,          \* the revision that runs: V151 or V150
    entry,        \* the function called: "verifyURL", "verifyURLs", "process"
    input,        \* its argument: a list of strings, or None
    pc,           \* "start", "await", "verified", "returned"
    uaeCitations, \* process: the citations that passed the domain filter
    called,       \* whether verifyURLs has been called
    urls,         \* verifyURLs: the argument of the call
    cleanedUrls,  \* verifyURLs: the candidates to probe
    i,            \* verifyURLs: the loop index, counted from 0
    probes,       \* the probes of the batch in flight, in batch order
    settled,      \* the indexes of the resolved probes, in completion order
    validUrls,    \* verifyURLs: the urls verified so far
    probed,       \* every url passed to verifyURL so far
    fetched,      \* whether any request has been sent
    status,       \* of the verifyURLs call: "pending", "resolved", "rejected"
    ret,          \* the list verifyURLs returned
    citations,    \* process: the citations returned to /api/chat
    trace         \* entry "verifyURL": the requests and timers of the probe

\* the /api/chat handler
VARIABLES
    hpc,          \* "idle", "search", "openai", "sent"
    gen,          \* the answer generation: "none", "pending", "ok", "error"
    webSources,   \* the handler's webSources
    deadline,     \* whether the 30 s timer of the race has rejected it
    response      \* the response sent

handlerVars == <<hpc, gen, webSources, deadline, response>>

\* the citation operations
VARIABLES
    text,         \* the generated answer text
    textType,     \* "string", or the type of a text that is not a string
    sourceCount,  \* the number of source records offered (safeBooks.length)
    op,           \* the operation applied to text, "none" before
    result        \* what the operation returned

citeVars == <<text, textType, sourceCount, op, result>>

\* the rate limiter and the request it is called for
VARIABLES
    requestCounts, \* the Map of checkRateLimit: the timestamps stored per ip
    now,           \* the clock: the value the last Date.now() returned
    calls,         \* the number of calls of checkRateLimit made
    lastCheck,     \* the last call of checkRateLimit and what it returned
    admitted,      \* per ip, the timestamps of the calls that returned true
    query          \* /api/chat: the query of the request body

limitVars == <<requestCounts, now, calls, lastCheck, admitted, query>>

vars == <<rev, entry, input, pc, uaeCitations, called, urls, cleanedUrls, i,
          probes, settled, validUrls, probed, fetched, status, ret, citations,
          trace, handlerVars, citeVars, limitVars>>

NoResponse ==
    [status |-> 0, answer |-> <<>>, bookIds |-> <<>>, webSources |-> <<>>,
     source |-> "none"]

NoResult == [kind |-> "none"]

\* no request is being handled
HandlerIdle ==
    /\ hpc = "idle"
    /\ gen = "none"
    /\ webSources = <<>>
    /\ deadline = FALSE
    /\ response = NoResponse

\* no citation operation has been applied
CiteIdle ==
    /\ text = <<>>
    /\ textType = "string"
    /\ sourceCount = 0
    /\ op = "none"
    /\ result = NoResult

ClientIps == {"10.0.0.1", "10.0.0.2"}

NoCheck == [ip |-> "none", at |-> 0, returned |-> FALSE, before |-> EmptyMap]

\* no request has been counted
LimiterIdle ==
    /\ requestCounts = EmptyMap
    /\ now = 0
    /\ calls = 0
    /\ lastCheck = NoCheck
    /\ admitted = [c \in ClientIps |-> <<>>]
    /\ query = <<>>

(***************************************************************************)
(* Inputs                                                                  *)
(***************************************************************************)
\* the longest list drawn from Pool
MaxLen == 2

Pool == {U_wam, U_comAe, U_bad}

RECURSIVE SeqsUpTo(_, _)
SeqsUpTo(S, n) ==
    IF n = 0 THEN {<<>>}
    ELSE LET shorter == SeqsUpTo(S, n - 1)
         IN  shorter \cup {Append(s, e) : s \in {t \in shorter : Len(t) = n - 1}, e \in S}

Scenario2 == <<U_wam, U_bad, U_com, U_wam>>

FixedLists ==
    {Scenario2,
     <<U_wam, U_enc>>, <<U_wamSp, U_wam>>, <<U_bad, U_pct>>, <<U_com, U_comAe>>,
     <<U_gov, U_wam, U_up, U_comAe>>}

Lists == SeqsUpTo(Pool, MaxLen) \cup {<<u>> : u \in Catalogue} \cup FixedLists

Inputs == {None} \cup Lists

Init ==
    /\ rev \in Revisions
    /\ entry \in {"verifyURL", "verifyURLs", "process"}
    /\ input \in IF entry = "verifyURL" THEN {<<u>> : u \in Catalogue} ELSE Inputs
    /\ pc = "start"
    /\ uaeCitations = <<>>
    /\ called = FALSE
    /\ urls = <<>>
    /\ cleanedUrls = <<>>
    /\ i = 0
    /\ probes = <<>>
    /\ settled = <<>>
    /\ validUrls = <<>>
    /\ probed = <<>>
    /\ fetched = FALSE
    /\ status = "pending"
    /\ ret = <<>>
    /\ citations = <<>>
    /\ trace = <<>>
    /\ HandlerIdle
    /\ CiteIdle
    /\ LimiterIdle

(***************************************************************************)
(* Actions                                                                 *)
(***************************************************************************)
InFlight(p) == p.pc \in {"head", "get"}

IsDone(p) == p.pc = "done"

AllDone(ps) == \A k \in 1..Len(ps) : IsDone(ps[k])

AnyRejected(ps) == \E k \in 1..Len(ps) : ps[k].res = "reject"

AnyInFlight(ps) == \E k \in 1..Len(ps) : InFlight(ps[k])

Event(method, o) == [m |-> method, o |-> o]

Timer(ms) == [kind |-> "timer", status |-> ms]

\* the probes of one batch, each run to its first await
StartBatch(r, batch) == [k \in 1..Len(batch) |-> ProbeCall(r, batch[k])]

\* the indexes of the probes that resolved without awaiting anything
DoneAtStart(ps) == SelectSeq([k \in 1..Len(ps) |-> k], LAMBDA k : IsDone(ps[k]))

\* probe k has moved to p
ProbeMoves(k, p) ==
    /\ probes' = [probes EXCEPT ![k] = p]
    /\ settled' = IF IsDone(p) THEN Append(settled, k) ELSE settled

\* verifyURLs awaits the probes ps of batch, or returns when there is none
BatchStarted(batch, ps) ==
    /\ probes' = ps
    /\ settled' = DoneAtStart(ps)
    /\ probed' = probed \o batch
    /\ fetched' = (fetched \/ AnyInFlight(ps))

VerifyStarted(cands, batch) ==
    /\ cleanedUrls' = cands
    /\ i' = 0
    /\ validUrls' = <<>>
    /\ BatchStarted(batch, StartBatch(rev, batch))
    /\ IF cands = <<>>
       THEN /\ status' = "resolved"
            /\ ret' = <<>>
            /\ pc' = "verified"
       ELSE /\ status' = "pending"
            /\ ret' = ret
            /\ pc' = "await"

VerifyCands(cands) == VerifyStarted(cands, Batch(rev, cands, 0))

\* verifyURLs from its call to its first await, or to its return when there
\* is nothing to probe
EnterVerifyURLs(arg) ==
    /\ called' = TRUE
    /\ urls' = arg
    /\ VerifyCands(Candidates(rev, arg))

\* a direct call of verifyURL(url)
CallVerifyURL ==
    /\ UNCHANGED <<handlerVars, citeVars, limitVars>>
    /\ pc = "start"
    /\ entry = "verifyURL"
    /\ BatchStarted(input, StartBatch(rev, input))
    /\ pc' = "await"
    /\ UNCHANGED <<rev, entry, input, uaeCitations, called, urls, cleanedUrls,
                   i, validUrls, status, ret, citations, trace>>

\* a direct call of verifyURLs(urls)
CallVerifyURLs ==
    /\ UNCHANGED <<handlerVars, citeVars, limitVars>>
    /\ pc = "start"
    /\ entry = "verifyURLs"
    /\ EnterVerifyURLs(input)
    /\ UNCHANGED <<rev, entry, input, uaeCitations, citations, trace>>

ProcessFiltered(uae) ==
    /\ uaeCitations' = uae
    /\ IF uae = <<>>
       THEN /\ citations' = <<>>
            /\ pc' = "returned"
            /\ UNCHANGED <<called, urls, cleanedUrls, i, probes, settled,
                           validUrls, probed, fetched, status, ret>>
       ELSE /\ EnterVerifyURLs(uae)
            /\ citations' = citations

\* processPerplexityResponse(data) with data.citations = input, to its return
\* (nothing passed the domain filter) or to the await of verifyURLs
CallProcess ==
    /\ UNCHANGED <<handlerVars, citeVars, limitVars>>
    /\ pc = "start"
    /\ entry = "process"
    /\ ProcessFiltered(UaeCitations(rev, input))
    /\ UNCHANGED <<rev, entry, input, trace>>

HeadSettled(k, o, p) ==
    /\ ProbeMoves(k, p)
    /\ trace' = IF entry = "verifyURL"
                THEN Append(trace, Event("HEAD", o))
                     \o (IF p.pc = "backoff"
                         THEN <<Event("sleep", Timer(BACKOFF_MS))>> ELSE <<>>)
                ELSE trace

\* the HEAD fetch of probe k settles with outcome o
HeadSettles(k, o) ==
    /\ UNCHANGED <<handlerVars, citeVars, limitVars>>
    /\ pc = "await"
    /\ probes[k].pc = "head"
    /\ HeadSettled(k, o, ProbeHeadSettled(rev, probes[k], o))
    /\ UNCHANGED <<rev, entry, input, pc, uaeCitations, called, urls,
                   cleanedUrls, i, validUrls, probed, fetched, status, ret,
                   citations>>

\* the backoff timer of probe k fires and the probe is called again
BackoffFires(k) ==
    /\ UNCHANGED <<handlerVars, citeVars, limitVars>>
    /\ pc = "await"
    /\ probes[k].pc = "backoff"
    /\ ProbeMoves(k, verifyURL_retry(probes[k]))
    /\ UNCHANGED <<rev, entry, input, pc, uaeCitations, called, urls,
                   cleanedUrls, i, validUrls, probed, fetched, status, ret,
                   citations, trace>>

\* the GET fetch of probe k settles with outcome o
GetSettles(k, o) ==
    /\ UNCHANGED <<handlerVars, citeVars, limitVars>>
    /\ pc = "await"
    /\ probes[k].pc = "get"
    /\ ProbeMoves(k, ProbeGetSettled(rev, probes[k], o))
    /\ trace' = IF entry = "verifyURL" THEN Append(trace, Event("GET", o)) ELSE trace
    /\ UNCHANGED <<rev, entry, input, pc, uaeCitations, called, urls,
                   cleanedUrls, i, validUrls, probed, fetched, status, ret,
                   citations>>

\* the loop of verifyURLs goes on with the batch next, or returns valid
LoopContinues(valid, from, next) ==
    /\ validUrls' = valid
    /\ i' = from
    /\ IF next = <<>>
       THEN /\ status' = "resolved"
            /\ ret' = valid
            /\ pc' = "verified"
            /\ UNCHANGED <<probes, settled, probed, fetched>>
       ELSE /\ BatchStarted(next, StartBatch(rev, next))
            /\ UNCHANGED <<status, ret>>
            /\ pc' = "await"

LoopFrom(valid, from) == LoopContinues(valid, from, Batch(rev, cleanedUrls, from))

\* Promise.all of the batch settles: verifyURLs pushes the valid urls and
\* starts the next batch, or returns; a rejected probe rejects verifyURLs
BatchSettles ==
    /\ UNCHANGED <<handlerVars, citeVars, limitVars>>
    /\ pc = "await"
    /\ entry # "verifyURL"
    /\ AllDone(probes) \/ AnyRejected(probes)
    /\ IF AnyRejected(probes)
       THEN /\ status' = "rejected"
            /\ pc' = "verified"
            /\ UNCHANGED <<i, probes, settled, validUrls, probed, fetched, ret>>
       ELSE LoopFrom(PushValid(validUrls, Batch(rev, cleanedUrls, i), probes, settled),
                     BatchEnd(rev, cleanedUrls, i))
    /\ UNCHANGED <<rev, entry, input, uaeCitations, called, urls, cleanedUrls,
                   citations, trace>>

\* processPerplexityResponse resumes after "await verifyURLs(uaeCitations)"
ProcessResumes ==
    /\ UNCHANGED <<handlerVars, citeVars, limitVars>>
    /\ pc = "verified"
    /\ entry \in {"process", "chat"}
    /\ citations' = ReturnedCitations(rev, uaeCitations, status, ret)
    /\ pc' = "returned"
    /\ UNCHANGED <<rev, entry, input, uaeCitations, called, urls, cleanedUrls,
                   i, probes, settled, validUrls, probed, fetched, status, ret,
                   trace>>

HeadSettlesAny ==
    \E k \in 1..Len(probes) :
        /\ probes[k].pc = "head"
        /\ \E o \in FetchOutcomes(probes[k].url) : HeadSettles(k, o)

BackoffFiresAny == \E k \in 1..Len(probes) : BackoffFires(k)

GetSettlesAny ==
    \E k \in 1..Len(probes) :
        /\ probes[k].pc = "get"
        /\ \E o \in FetchOutcomes(probes[k].url) : GetSettles(k, o)

Next ==
    \/ CallVerifyURL
    \/ CallVerifyURLs
    \/ CallProcess
    \/ HeadSettlesAny
    \/ BackoffFiresAny
    \/ GetSettlesAny
    \/ BatchSettles
    \/ ProcessResumes

Spec == Init /\ [][Next]_vars

(***************************************************************************)
(* The batch cap: verifyURLs called with one url more than the maximum     *)
(* batch size the specification configures.                                *)
(***************************************************************************)
MAX_BATCH == 10

U_capBase == \* "https://wam.ae/"
    <<"h","t","t","p","s",":","/","/","w","a","m",".","a","e","/">>

CapChars == DigitChars \o LowerChars

CapList == [k \in 1..(MAX_BATCH + 1) |-> U_capBase \o <<CapChars[k]>>]

InitCap ==
    /\ rev = V151
    /\ entry = "verifyURLs"
    /\ input = CapList
    /\ pc = "start"
    /\ uaeCitations = <<>>
    /\ called = FALSE
    /\ urls = <<>>
    /\ cleanedUrls = <<>>
    /\ i = 0
    /\ probes = <<>>
    /\ settled = <<>>
    /\ validUrls = <<>>
    /\ probed = <<>>
    /\ fetched = FALSE
    /\ status = "pending"
    /\ ret = <<>>
    /\ citations = <<>>
    /\ trace = <<>>
    /\ HandlerIdle
    /\ CiteIdle
    /\ LimiterIdle

NextCap ==
    \/ CallVerifyURLs
    \/ HeadSettlesAny
    \/ BackoffFiresAny
    \/ GetSettlesAny
    \/ BatchSettles

SpecCap == InitCap /\ [][NextCap]_vars

(***************************************************************************)
(* Citation markers: CitationValidator (src/unnamed/part_001) and the      *)
(* extraction of bookIds in the /api/chat handlers.                        *)
(***************************************************************************)
DigitValue(c) == (CHOOSE k \in 1..Len(DigitChars) : DigitChars[k] = c) - 1

\* parseInt(digits, 10) on a string of decimal digits
RECURSIVE ParseInt(_)
ParseInt(ds) ==
    IF ds = <<>> THEN 0
    ELSE ParseInt(SubSeq(ds, 1, Len(ds) - 1)) * 10 + DigitValue(ds[Len(ds)])

\* the index after the run of digits of s that starts at at
RECURSIVE DigitsEnd(_, _)
DigitsEnd(s, at) ==
    IF at <= Len(s) /\ IsDigit(s[at]) THEN DigitsEnd(s, at + 1) ELSE at

\* /\[(\d+)\]/ matches s[at..e], the digits ending before e
MarkerAt(s, at, e) ==
    /\ s[at] = "["
    /\ e > at + 1
    /\ e <= Len(s)
    /\ s[e] = "]"

Citation(s, at, e) ==
    [original |-> SubSeq(s, at, e),
     number   |-> ParseInt(SubSeq(s, at + 1, e - 1)),
     position |-> at - 1]

\* the loop "while ((match = pattern.exec(text)) !== null)" with the global
\* pattern: leftmost matches, each search resuming after the previous match
RECURSIVE ExtractFrom(_, _)
ExtractStep(s, at, e) ==
    IF MarkerAt(s, at, e)
    THEN <<Citation(s, at, e)>> \o ExtractFrom(s, e + 1)
    ELSE ExtractFrom(s, at + 1)

ExtractFrom(s, at) ==
    IF at > Len(s) THEN <<>> ELSE ExtractStep(s, at, DigitsEnd(s, at + 1))

extractCitations(str) == ExtractFrom(str, 1)

MapNumber(cs) == [k \in 1..Len(cs) |-> cs[k].number]

\* a variant without the lower bound
isValidCitationNumber_noLower(num, range) == num <= range

isValidCitationNumber(num, range) == num >= 1 /\ num <= range

ValidAmong(cs, range) ==
    SelectSeq(cs, LAMBDA c : isValidCitationNumber(c.number, range))

\* a variant that takes every marker for invalid
InvalidAmong_all(cs, range) == cs

InvalidAmong(cs, range) ==
    SelectSeq(cs, LAMBDA c : ~isValidCitationNumber(c.number, range))

findInvalidCitations(str, range) == InvalidAmong(extractCitations(str), range)

\* String.prototype.replace(sub, ''): the first occurrence of sub is removed
RECURSIVE ReplaceFirstFrom(_, _, _)
ReplaceFirstFrom(s, sub, at) ==
    IF at + Len(sub) - 1 > Len(s) THEN s
    ELSE IF MatchesAt(s, sub, at)
    THEN SubSeq(s, 1, at - 1) \o SubSeq(s, at + Len(sub), Len(s))
    ELSE ReplaceFirstFrom(s, sub, at + 1)

ReplaceFirst(s, sub) == ReplaceFirstFrom(s, sub, 1)

\* the for loop over invalidCitations sorted by descending position: the
\* last k citations of invs (text order) are still to be removed, last first
RECURSIVE RemoveEach(_, _, _)
RemoveEach(s, invs, k) ==
    IF k = 0 THEN s
    ELSE RemoveEach(ReplaceFirst(s, invs[k].original), invs, k - 1)

\* replace(/\s+/g, ' ')
RECURSIVE CollapseSpaces(_)
CollapseSpaces(s) ==
    IF s = <<>> THEN <<>>
    ELSE IF IsSpace(Head(s))
    THEN <<" ">> \o CollapseSpaces(DropLeading(s))
    ELSE <<Head(s)>> \o CollapseSpaces(Tail(s))

RemoveListed(str, invs) == Trim(CollapseSpaces(RemoveEach(str, invs, Len(invs))))

removeInvalidCitations(str, range) ==
    RemoveListed(str, findInvalidCitations(str, range))

Validation(cs, invalid, valid) ==
    [isValid |-> Len(invalid) = 0,
     totalCitationsFound |-> Len(cs),
     validCitationsCount |-> Len(valid),
     issues |-> MapNumber(invalid)]

ValidationOf(cs, range) ==
    Validation(cs, InvalidAmong(cs, range), ValidAmong(cs, range))

validateAllCitations(str, range) == ValidationOf(extractCitations(str), range)

\* a variant that cleans the text whether or not a marker is invalid
Report_alwaysCleaned(str, range, validation, invalid) ==
    [validation |-> validation,
     sourceCount |-> range,
     invalidCitationsFound |-> Len(invalid),
     invalidCitationNumbers |-> MapNumber(invalid),
     cleanedText |-> removeInvalidCitations(str, range),
     hasExternalReferences |-> Len(invalid) > 0]

Report(str, range, validation, invalid) ==
    [validation |-> validation,
     sourceCount |-> range,
     invalidCitationsFound |-> Len(invalid),
     invalidCitationNumbers |-> MapNumber(invalid),
     cleanedText |-> IF validation.isValid THEN str
                     ELSE removeInvalidCitations(str, range),
     hasExternalReferences |-> Len(invalid) > 0]

getValidationReport(str, range) ==
    Report(str, range, validateAllCitations(str, range),
           findInvalidCitations(str, range))

\* Array.prototype.sort((a, b) => a - b)
RECURSIVE InsertSorted(_, _)
InsertSorted(sorted, n) ==
    IF sorted = <<>> THEN <<n>>
    ELSE IF n < Head(sorted) THEN <<n>> \o sorted
    ELSE <<Head(sorted)>> \o InsertSorted(Tail(sorted), n)

RECURSIVE SortAscending(_)
SortAscending(list) ==
    IF list = <<>> THEN <<>>
    ELSE InsertSorted(SortAscending(SubSeq(list, 1, Len(list) - 1)), list[Len(list)])

InRange(list, n) == SelectSeq(list, LAMBDA v : v > 0 /\ v <= n)

\* answer.match(/\[(\d+)\]/g) mapped through parseInt
MatchedNumbers(answer) == MapNumber(extractCitations(answer))

\* a variant that keeps every number matched
bookIds_unfiltered(answer, n) == SortAscending(Unique(MatchedNumbers(answer)))

\* v15.1 and v15.0: [...new Set(numbers)].filter(in range).sort(ascending)
bookIds_v15(answer, n) == SortAscending(InRange(Unique(MatchedNumbers(answer)), n))

\* src/server.js: the numbers in range, added to a Set in text order
bookIds_server(answer, n) == Unique(InRange(MatchedNumbers(answer), n))

\* part_001: the answer sent is the cleaned text when a marker was invalid
FinalAnswer(aiResponse, report) ==
    IF report.hasExternalReferences THEN report.cleanedText ELSE aiResponse

\* part_001: every number in range found in the answer sent is pushed
bookIds_validated(aiResponse, n) ==
    InRange(MatchedNumbers(FinalAnswer(aiResponse, getValidationReport(aiResponse, n))), n)

(***************************************************************************)
(* The rate limiter called in sequence: each call reads the clock, which   *)
(* never goes back, and is made for one of the client ips.  The Map starts *)
(* as earlier calls left it: without the ip, or with the timestamps of a   *)
(* burst of admitted calls.                                                *)
(***************************************************************************)
\* the calls of one run
MaxCalls == 4

\* the Map after n calls admitted at time 0
Burst(n) == [k \in 1..n |-> 0]

Prefilled == {<<>>, Burst(RATE_LIMIT - 1), Burst(RATE_LIMIT)}

\* the Map that stores the lists of f, an ip without timestamps being absent
MapOf(f) == [k \in {c \in ClientIps : f[c] # <<>>} |-> f[k]]

\* the time between two calls: none, 1 ms, 1 ms less than the window
Advances == {0, 1, RATE_WINDOW - 1}

\* checkRateLimit(ip) has run at time at and ended as r
LimitChecked(ip, at, r) ==
    /\ now' = at
    /\ calls' = calls + 1
    /\ requestCounts' = r.requestCounts
    /\ lastCheck' = [ip |-> ip, at |-> at, returned |-> r.returned,
                     before |-> requestCounts]
    /\ admitted' = IF r.returned
                   THEN [admitted EXCEPT ![ip] = Append(@, at)]
                   ELSE admitted

\* a call of checkRateLimit(ip), d ms after the call before
CheckRateLimit(ip, d) ==
    /\ entry = "checkRateLimit"
    /\ calls < MaxCalls
    /\ LimitChecked(ip, now + d, checkRateLimit(requestCounts, ip, now + d))
    /\ UNCHANGED <<rev, entry, input, pc, uaeCitations, called, urls, cleanedUrls,
                   i, probes, settled, validUrls, probed, fetched, status, ret,
                   citations, trace, handlerVars, citeVars, query>>

CheckRateLimitAny == \E ip \in ClientIps, d \in Advances : CheckRateLimit(ip, d)

InitLimit ==
    /\ rev = V151
    /\ entry = "checkRateLimit"
    /\ input = <<>>
    /\ pc = "start"
    /\ uaeCitations = <<>>
    /\ called = FALSE
    /\ urls = <<>>
    /\ cleanedUrls = <<>>
    /\ i = 0
    /\ probes = <<>>
    /\ settled = <<>>
    /\ validUrls = <<>>
    /\ probed = <<>>
    /\ fetched = FALSE
    /\ status = "pending"
    /\ ret = <<>>
    /\ citations = <<>>
    /\ trace = <<>>
    /\ HandlerIdle
    /\ CiteIdle
    /\ admitted \in [ClientIps -> Prefilled]
    /\ requestCounts = MapOf(admitted)
    /\ now = 0
    /\ calls = 0
    /\ lastCheck = NoCheck
    /\ query = <<>>

NextLimit == CheckRateLimitAny

SpecLimit == InitLimit /\ [][NextLimit]_vars

(***************************************************************************)
(* /api/chat: the handler races searchWithPerplexity (the Perplexity call, *)
(* then the filter and verifyURLs above) against a 30 s timer in v15.1 and *)
(* awaits it in v15.0, then generates the answer with callOpenAI.          *)
(***************************************************************************)
verifierVars == <<rev, entry, input, pc, uaeCitations, called, urls, cleanedUrls,
                  i, probes, settled, validUrls, probed, fetched, status, ret,
                  citations, trace>>

\* the Perplexity API call: a response that is ok, one that is not, a rejection
SearchOutcomes == {"ok", "notok", "error"}

T_plain == \* "a"
    <<"a">>

T_cited == \* "[2] [1]"
    <<"[","2","]"," ","[","1","]">>

AnswerTexts == {T_plain, T_cited}

Generated(answer) == [ok |-> TRUE, text |-> answer]

OpenAIError == [ok |-> FALSE, text |-> <<>>]

\* callOpenAI returns the answer text or throws
GenOutcomes == {Generated(t) : t \in AnswerTexts} \cup {OpenAIError}

\* the requests the handler is run with: data.citations of the search and
\* the number of books sent
ChatCitations == {None, <<U_wam>>, <<U_wam, U_comAe>>, <<U_badAe>>}

ChatBooks == {0, 2}

\* the response of the outer catch block
ErrorResponse ==
    [status |-> 500, answer |-> <<>>, bookIds |-> <<>>, webSources |-> <<>>,
     source |-> "error"]

\* the response of the branch without books
WebOnlyResponse(ws) ==
    [status |-> 200, answer |-> <<>>, bookIds |-> <<>>, webSources |-> ws,
     source |-> IF Len(ws) > 0 THEN "web" ELSE "none"]

\* the response of the branch with books, once the answer is generated
AnswerResponse(answer, n, ws) ==
    [status |-> 200, answer |-> answer, bookIds |-> bookIds_v15(answer, n),
     webSources |-> ws, source |-> IF Len(ws) > 0 THEN "dual" ELSE "library"]

\* webSources as the handler assigns it from the citations of the search
WebSourcesOf(r, n, cits) ==
    IF r = V150 /\ n > 0 THEN filterUaeDomains(cits) ELSE cits

\* the race won by the search
SearchResult(cits) == [ok |-> TRUE, citations |-> cits]

\* a variant without the try/catch around the race
TimeoutCaught_rethrown == [ok |-> FALSE, citations |-> <<>>]

\* the race lost to the timer: the catch block continues with empty results
TimeoutCaught == [ok |-> TRUE, citations |-> <<>>]

\* the handler after the race (v15.1) or the await (v15.0) has settled
HandlerResumes(w) ==
    IF ~w.ok
    THEN /\ webSources' = webSources
         /\ hpc' = "sent"
         /\ gen' = gen
         /\ response' = ErrorResponse
    ELSE /\ webSources' = WebSourcesOf(rev, sourceCount, w.citations)
         /\ IF sourceCount > 0
            THEN /\ hpc' = "openai"
                 /\ gen' = "pending"
                 /\ response' = response
            ELSE /\ hpc' = "sent"
                 /\ gen' = gen
                 /\ response' = WebOnlyResponse(w.citations)

\* req.ip || req.headers['x-forwarded-for'] || 'unknown'
ClientIp == "10.0.0.1"

\* the query of a body without one: undefined, a value no string equals
\* (no string has "undefined" as one of its characters)
Q_missing == <<"undefined">>

\* !query: the body has no query, or an empty one
NoQuery(q) == q = Q_missing \/ q = <<>>

Queries == {Q_missing, <<>>, T_plain}

\* res.status(429).json({ error: 'Rate limit exceeded' })
RateLimitResponse ==
    [status |-> 429, answer |-> <<>>, bookIds |-> <<>>, webSources |-> <<>>,
     source |-> "error"]

\* res.status(400).json({ error: 'Query required' })
QueryRequiredResponse ==
    [status |-> 400, answer |-> <<>>, bookIds |-> <<>>, webSources |-> <<>>,
     source |-> "error"]

\* a variant that starts the search before it looks at the request
ChatStarts_searchFirst(limited, q) ==
    /\ hpc' = "search"
    /\ pc' = "perplexity"
    /\ response' = response

\* the handler from the rate-limit check to its first await: 429 when the
\* limiter refuses, 400 when the query is missing, else the search is called
ChatStarts(limited, q) ==
    IF limited
    THEN /\ hpc' = "sent"
         /\ pc' = pc
         /\ response' = RateLimitResponse
    ELSE IF NoQuery(q)
    THEN /\ hpc' = "sent"
         /\ pc' = pc
         /\ response' = QueryRequiredResponse
    ELSE /\ hpc' = "search"
         /\ pc' = "perplexity"
         /\ response' = response

ChatChecked(at, r) ==
    /\ LimitChecked(ClientIp, at, r)
    /\ ChatStarts(~r.returned, query)

\* POST /api/chat: the handler runs to its first await or to its response
ChatReceives ==
    /\ entry = "chat"
    /\ pc = "start"
    /\ hpc = "idle"
    /\ \E d \in Advances :
          ChatChecked(now + d, checkRateLimit(requestCounts, ClientIp, now + d))
    /\ UNCHANGED <<rev, entry, input, uaeCitations, called, urls, cleanedUrls,
                   i, probes, settled, validUrls, probed, fetched, status, ret,
                   citations, trace>>
    /\ UNCHANGED <<gen, webSources, deadline, citeVars, query>>

\* the Perplexity API call of searchWithPerplexity settles with outcome o
PerplexitySettles(o) ==
    /\ entry = "chat"
    /\ pc = "perplexity"
    /\ IF o = "ok"
       THEN ProcessFiltered(UaeCitations(rev, input))
       ELSE /\ citations' = <<>>
            /\ pc' = "returned"
            /\ UNCHANGED <<uaeCitations, called, urls, cleanedUrls, i, probes,
                           settled, validUrls, probed, fetched, status, ret>>
    /\ UNCHANGED <<rev, entry, input, trace, handlerVars, citeVars, limitVars>>

PerplexitySettlesAny == \E o \in SearchOutcomes : PerplexitySettles(o)

\* the search settles before the timer: the handler resumes with its result
SearchWins ==
    /\ hpc = "search"
    /\ pc = "returned"
    /\ HandlerResumes(SearchResult(citations))
    /\ UNCHANGED <<verifierVars, deadline, citeVars, limitVars>>

\* v15.1: the 30 s timer fires while the search has not settled
DeadlineFires ==
    /\ rev = V151
    /\ hpc = "search"
    /\ pc # "returned"
    /\ deadline' = TRUE
    /\ HandlerResumes(TimeoutCaught)
    /\ UNCHANGED <<verifierVars, citeVars, limitVars>>

\* callOpenAI settles with outcome o: the response is sent
OpenAISettles(o) ==
    /\ hpc = "openai"
    /\ hpc' = "sent"
    /\ gen' = IF o.ok THEN "ok" ELSE "error"
    /\ text' = o.text
    /\ response' = IF o.ok THEN AnswerResponse(o.text, sourceCount, webSources)
                   ELSE ErrorResponse
    /\ UNCHANGED <<verifierVars, webSources, deadline, textType, sourceCount, op,
                   result, limitVars>>

OpenAISettlesAny == \E o \in GenOutcomes : OpenAISettles(o)

InitChat ==
    /\ rev \in Revisions
    /\ entry = "chat"
    /\ input \in ChatCitations
    /\ pc = "start"
    /\ uaeCitations = <<>>
    /\ called = FALSE
    /\ urls = <<>>
    /\ cleanedUrls = <<>>
    /\ i = 0
    /\ probes = <<>>
    /\ settled = <<>>
    /\ validUrls = <<>>
    /\ probed = <<>>
    /\ fetched = FALSE
    /\ status = "pending"
    /\ ret = <<>>
    /\ citations = <<>>
    /\ trace = <<>>
    /\ HandlerIdle
    /\ text = <<>>
    /\ textType = "string"
    /\ sourceCount \in ChatBooks
    /\ op = "none"
    /\ result = NoResult
    /\ \E list \in Prefilled :
          admitted = [c \in ClientIps |-> IF c = ClientIp THEN list ELSE <<>>]
    /\ requestCounts = MapOf(admitted)
    /\ now = 0
    /\ calls = 0
    /\ lastCheck = NoCheck
    /\ query \in Queries

NextChat ==
    \/ ChatReceives
    \/ PerplexitySettlesAny
    \/ HeadSettlesAny
    \/ BackoffFiresAny
    \/ GetSettlesAny
    \/ BatchSettles
    \/ ProcessResumes
    \/ SearchWins
    \/ DeadlineFires
    \/ OpenAISettlesAny

SpecChat == InitChat /\ [][NextChat]_vars

(***************************************************************************)
(* The citation operations applied to a text: one operation per run.  A    *)
(* text that is not a string is held as the string the pattern coerces it  *)
(* to, with its type in textType.                                          *)
(***************************************************************************)
\* the most pieces a drawn text is made of
MaxPieces == 3

\* the largest number of source records
MaxN == 2

Pieces ==
    {<<"[","0","]">>, <<"[","1","]">>, <<"[","3","]">>, <<" ">>, <<"[">>,
     <<"]">>, <<"3">>}

RECURSIVE PieceTexts(_)
PieceTexts(n) ==
    IF n = 0 THEN {<<>>}
    ELSE PieceTexts(n - 1) \cup {t \o p : t \in PieceTexts(n - 1), p \in Pieces}

T_nested == \* "[[3]3]"
    <<"[","[","3","]","3","]">>

T_joined == \* "[1[3]2]"
    <<"[","1","[","3","]","2","]">>

T_repeat == \* "[1] [1]"
    <<"[","1","]"," ","[","1","]">>

T_padded == \* "a  [1] "
    <<"a"," "," ","[","1","]"," ">>

T_zeros == \* "[01]"
    <<"[","0","1","]">>

FixedTexts == {T_plain, T_cited, T_nested, T_joined, T_repeat, T_padded, T_zeros}

Texts == PieceTexts(MaxPieces) \cup FixedTexts

S_undefined == \* String(undefined)
    <<"u","n","d","e","f","i","n","e","d">>

S_number == \* String(42)
    <<"4","2">>

\* the values that are not strings, with the string each is coerced to
NonStrings ==
    {[type |-> "undefined", str |-> S_undefined], [type |-> "number", str |-> S_number]}

Returned(kind, value) == [kind |-> kind, value |-> value]

\* calling .replace on a value that is not a string
TypeError == [kind |-> "error", value |-> "TypeError"]

\* the operation named applied to the text, to its return
Applies(name, returned) ==
    /\ op = "none"
    /\ op' = name
    /\ result' = returned
    /\ UNCHANGED <<verifierVars, handlerVars, text, textType, sourceCount, limitVars>>

ExtractCitations ==
    /\ entry = "cite"
    /\ Applies("extractCitations", Returned("citations", extractCitations(text)))

RemoveInvalidCitations ==
    /\ entry = "cite"
    /\ Applies("removeInvalidCitations",
               IF textType = "string"
               THEN Returned("text", removeInvalidCitations(text, sourceCount))
               ELSE TypeError)

GetValidationReport ==
    /\ entry = "cite"
    /\ Applies("getValidationReport",
               Returned("report", getValidationReport(text, sourceCount)))

\* the bookIds the handler of each revision extracts from the answer text
ExtractBookIds_v15 ==
    /\ entry = "cite"
    /\ textType = "string"
    /\ Applies("bookIds_v15", Returned("bookIds", bookIds_v15(text, sourceCount)))

ExtractBookIds_server ==
    /\ entry = "cite"
    /\ textType = "string"
    /\ Applies("bookIds_server", Returned("bookIds", bookIds_server(text, sourceCount)))

ExtractBookIds_validated ==
    /\ entry = "cite"
    /\ textType = "string"
    /\ Applies("bookIds_validated",
               Returned("bookIds", bookIds_validated(text, sourceCount)))

InitCite ==
    /\ rev = V151
    /\ entry = "cite"
    /\ input = <<>>
    /\ pc = "start"
    /\ uaeCitations = <<>>
    /\ called = FALSE
    /\ urls = <<>>
    /\ cleanedUrls = <<>>
    /\ i = 0
    /\ probes = <<>>
    /\ settled = <<>>
    /\ validUrls = <<>>
    /\ probed = <<>>
    /\ fetched = FALSE
    /\ status = "pending"
    /\ ret = <<>>
    /\ citations = <<>>
    /\ trace = <<>>
    /\ HandlerIdle
    /\ \/ textType = "string" /\ text \in Texts
       \/ \E v \in NonStrings : textType = v.type /\ text = v.str
    /\ sourceCount \in 0..MaxN
    /\ op = "none"
    /\ result = NoResult
    /\ LimiterIdle

NextCite ==
    \/ ExtractCitations
    \/ RemoveInvalidCitations
    \/ GetValidationReport
    \/ ExtractBookIds_v15
    \/ ExtractBookIds_server
    \/ ExtractBookIds_validated

SpecCite == InitCite /\ [][NextCite]_vars

(***************************************************************************)
(* forceCitations (src/unnamed/part_008 70-122): the post-processing step  *)
(* of the v7.0 handler.  The characters outside ASCII are held as the      *)
(* one-character strings "U+3002", "U+061F" and "U+FF1F".                  *)
(***************************************************************************)
\* [.。؟!？]
EndMarks == {".", "U+3002", "U+061F", "!", "U+FF1F"}

\* [.。؟!？\n]
Separators == EndMarks \cup {"\n"}

IsSeparator(c) == c \in Separators

\* c goes on the last piece when both are separators or both are not
AddChar(pieces, c) ==
    IF pieces # <<>> /\ IsSeparator(pieces[Len(pieces)][1]) = IsSeparator(c)
    THEN [pieces EXCEPT ![Len(pieces)] = Append(@, c)]
    ELSE Append(pieces, <<c>>)

RECURSIVE PiecesFrom(_, _, _)
PiecesFrom(s, at, pieces) ==
    IF at > Len(s) THEN pieces
    ELSE PiecesFrom(s, at + 1, AddChar(pieces, s[at]))

NotBlank(s) == Trim(s) # <<>>

\* answer.split(/([.。؟!？\n]+)/g).filter(s => s.trim()): the capture group
\* puts the runs of separators into the array, between the runs of other
\* characters; the empty strings split adds at the ends are filtered out
SplitSentences(answer) == SelectSeq(PiecesFrom(answer, 1, <<>>), NotBlank)

\* /\[\d+\]/.test(sentence)
HasMarker(sentence) == extractCitations(sentence) # <<>>

\* /^[.。؟!？\n]+$/.test(sentence)
OnlySeparators(sentence) ==
    sentence # <<>> /\ \A k \in 1..Len(sentence) : IsSeparator(sentence[k])

\* /[.。؟!？]$/.test(sentence)
EndsWithMark(sentence) == sentence # <<>> /\ sentence[Len(sentence)] \in EndMarks

\* the shortest sentence that gets citations
MinSentenceLen == 10

\* the largest number of citations added to one sentence
MaxAdded == 3

\* `${citNum}`
RECURSIVE NumText(_)
NumText(num) ==
    IF num < 10 THEN <<DigitChars[num + 1]>>
    ELSE NumText(num \div 10) \o <<DigitChars[(num % 10) + 1]>>

\* the markers of the inner loop: count of them, numbered from current on
RECURSIVE MarkersFrom(_, _, _)
MarkersFrom(current, n, count) ==
    IF count = 0 THEN <<>>
    ELSE <<"[">> \o NumText(((current - 1) % n) + 1) \o <<"]">>
         \o MarkersFrom(current + 1, n, count - 1)

\* the sentence with its ending mark moved behind the markers
WithMarkers(sentence, markers) ==
    SubSeq(sentence, 1, Len(sentence) - 1) \o markers
        \o <<sentence[Len(sentence)]>> \o <<" ">>

\* the for loop over the sentences: acc is result, current is
\* currentCitation, draws[k] the value Math.random gives numCitations at
\* sentence k
RECURSIVE ForceLoop(_, _, _, _, _, _)
ForceSentence(sentences, k, sentence, acc, current, n, draws) ==
    IF HasMarker(sentence)
    THEN ForceLoop(sentences, k + 1, acc \o sentence \o <<" ">>, current, n, draws)
    ELSE IF OnlySeparators(sentence)
    THEN ForceLoop(sentences, k + 1, acc \o sentence, current, n, draws)
    ELSE IF Len(sentence) < MinSentenceLen
    THEN ForceLoop(sentences, k + 1, acc \o sentence \o <<" ">>, current, n, draws)
    ELSE IF EndsWithMark(sentence)
    THEN ForceLoop(sentences, k + 1,
                   acc \o WithMarkers(sentence, MarkersFrom(current, n, draws[k])),
                   current + draws[k], n, draws)
    ELSE ForceLoop(sentences, k + 1, acc \o sentence \o <<" ">>, current, n, draws)

ForceLoop(sentences, k, acc, current, n, draws) ==
    IF k > Len(sentences) THEN Trim(acc)
    ELSE ForceSentence(sentences, k, Trim(sentences[k]), acc, current, n, draws)

\* forceCitations(answer, numberOfBooks)
forceCitations(answer, n, draws) ==
    IF answer = <<>> \/ n = 0 THEN answer
    ELSE ForceLoop(SplitSentences(answer), 1, <<>>, 1, n, draws)

\* ---- the answers forceCitations is applied to ----
\* the most pieces an answer is made of
MaxParts == 3

A_long == \* "Books help us"
    <<"B","o","o","k","s"," ","h","e","l","p"," ","u","s">>

A_short == \* "Yes"
    <<"Y","e","s">>

A_cited == \* "[1]"
    <<"[","1","]">>

AnswerParts == {A_long, A_short, A_cited, <<".">>, <<"!">>, <<"U+061F">>, <<" ">>, <<"\n">>}

RECURSIVE AnswersOf(_)
AnswersOf(n) ==
    IF n = 0 THEN {<<>>}
    ELSE AnswersOf(n - 1) \cup {a \o b : a \in AnswersOf(n - 1), b \in AnswerParts}

Answers == AnswersOf(MaxParts)

\* the values of numCitations: Math.min(3, Math.floor(Math.random() * 3) + 1)
Draws == [1..MaxParts -> 1..MaxAdded]

ForceCitations ==
    /\ entry = "forceCitations"
    /\ \E draws \in Draws :
          Applies("forceCitations",
                  Returned("text", forceCitations(text, sourceCount, draws)))

InitForce ==
    /\ rev = V151
    /\ entry = "forceCitations"
    /\ input = <<>>
    /\ pc = "start"
    /\ uaeCitations = <<>>
    /\ called = FALSE
    /\ urls = <<>>
    /\ cleanedUrls = <<>>
    /\ i = 0
    /\ probes = <<>>
    /\ settled = <<>>
    /\ validUrls = <<>>
    /\ probed = <<>>
    /\ fetched = FALSE
    /\ status = "pending"
    /\ ret = <<>>
    /\ citations = <<>>
    /\ trace = <<>>
    /\ HandlerIdle
    /\ textType = "string"
    /\ text \in Answers
    /\ sourceCount \in 0..MaxN
    /\ op = "none"
    /\ result = NoResult
    /\ LimiterIdle

NextForce == ForceCitations

SpecForce == InitForce /\ [][NextForce]_vars

(***************************************************************************)
(* callPerplexity (src/backend/server.js 38-127): one request to the       *)
(* Perplexity API and, on invalid_model/400, one more with the fallback    *)
(* model.                                                                  *)
(***************************************************************************)
\* ---- model names ----
M_sonar_pro == \* sonar-pro
    <<"s","o","n","a","r","-","p","r","o">>

M_sonar == \* sonar
    <<"s","o","n","a","r">>

M_reasoning == \* Sonar-Reasoning
    <<"S","o","n","a","r","-","R","e","a","s","o","n","i","n","g">>

M_sonar_small == \* sonar-small
    <<"s","o","n","a","r","-","s","m","a","l","l">>

M_sonar_large == \* sonar-large
    <<"s","o","n","a","r","-","l","a","r","g","e">>

M_sonar_online == \* sonar-online
    <<"s","o","n","a","r","-","o","n","l","i","n","e">>

M_llama_small == \* llama-3.1-sonar-small-128k-online
    <<"l","l","a","m","a","-","3",".","1","-","s","o","n","a","r","-","s","m",
      "a","l","l","-","1","2","8","k","-","o","n","l","i","n","e">>

M_llama_large == \* llama-3.1-sonar-large-128k-online
    <<"l","l","a","m","a","-","3",".","1","-","s","o","n","a","r","-","l","a",
      "r","g","e","-","1","2","8","k","-","o","n","l","i","n","e">>

M_sonar_reasoning == \* sonar-reasoning
    <<"s","o","n","a","r","-","r","e","a","s","o","n","i","n","g">>

M_sonar_reasoning_pro == \* sonar-reasoning-pro
    <<"s","o","n","a","r","-","r","e","a","s","o","n","i","n","g","-","p","r",
      "o">>

M_sonar_deep_research == \* sonar-deep-research
    <<"s","o","n","a","r","-","d","e","e","p","-","r","e","s","e","a","r","c",
      "h">>

M_unknown == \* gpt-4
    <<"g","p","t","-","4">>

DEFAULT_PRIMARY_MODEL == M_sonar_pro

DEFAULT_FALLBACK_MODEL == M_sonar

\* the argument left out: the parameter takes its default value
Missing == <<"undefined">>

\* the names legacyMap has an entry for
LegacyNames == {M_llama_small, M_llama_large, M_sonar_small, M_sonar_large,
                M_sonar_online}

legacyMap ==
    [n \in LegacyNames |->
        IF n = M_llama_small THEN DEFAULT_PRIMARY_MODEL
        ELSE IF n = M_llama_large THEN M_sonar_pro
        ELSE IF n = M_sonar_small THEN DEFAULT_FALLBACK_MODEL
        ELSE IF n = M_sonar_large THEN M_sonar_pro
        ELSE DEFAULT_FALLBACK_MODEL]

allowed == {M_sonar, M_sonar_pro, M_sonar_reasoning, M_sonar_reasoning_pro,
            M_sonar_deep_research}

\* the name looked up, n being the name in lower case
NormalizedLower(n) ==
    IF n \in LegacyNames THEN legacyMap[n]
    ELSE IF n \in allowed THEN n
    ELSE DEFAULT_PRIMARY_MODEL

normalizeModelName(name) ==
    IF name = Missing \/ name = <<>> THEN DEFAULT_PRIMARY_MODEL
    ELSE NormalizedLower(ToLowerCase(name))

\* ---- responses ----
X_invalid_model == \* invalid_model
    <<"i","n","v","a","l","i","d","_","m","o","d","e","l">>

X_prefix == \* Perplexity error 
    <<"P","e","r","p","l","e","x","i","t","y"," ","e","r","r","o","r"," ">>

X_colon == \* : 
    <<":"," ">>

X_nonjson == \* Perplexity returned non-JSON response
    <<"P","e","r","p","l","e","x","i","t","y"," ","r","e","t","u","r","n","e",
      "d"," ","n","o","n","-","J","S","O","N"," ","r","e","s","p","o","n","s",
      "e">>

X_nocontent == \* Perplexity returned no content
    <<"P","e","r","p","l","e","x","i","t","y"," ","r","e","t","u","r","n","e",
      "d"," ","n","o"," ","c","o","n","t","e","n","t">>

X_fetch_failed == \* fetch failed
    <<"f","e","t","c","h"," ","f","a","i","l","e","d">>

B_answer == \* {"choices":[{"message":{"content":"ok"}}]}
    <<"{","\"","c","h","o","i","c","e","s","\"",":","[","{","\"","m","e","s",
      "s","a","g","e","\"",":","{","\"","c","o","n","t","e","n","t","\"",":",
      "\"","o","k","\"","}","}","]","}">>

B_nochoices == \* {"choices":[]}
    <<"{","\"","c","h","o","i","c","e","s","\"",":","[","]","}">>

B_html == \* <html>
    <<"<","h","t","m","l",">">>

B_type_only == \* {"error":{"type":"invalid_model"}}
    <<"{","\"","e","r","r","o","r","\"",":","{","\"","t","y","p","e","\"",":",
      "\"","i","n","v","a","l","i","d","_","m","o","d","e","l","\"","}","}">>

B_upper == \* {"error":{"message":"INVALID_MODEL"}}
    <<"{","\"","e","r","r","o","r","\"",":","{","\"","m","e","s","s","a","g",
      "e","\"",":","\"","I","N","V","A","L","I","D","_","M","O","D","E","L",
      "\"","}","}">>

B_spaced == \* {"error":{"message":"Invalid model","type":"invalid_model"}}
    <<"{","\"","e","r","r","o","r","\"",":","{","\"","m","e","s","s","a","g",
      "e","\"",":","\"","I","n","v","a","l","i","d"," ","m","o","d","e","l",
      "\"",",","\"","t","y","p","e","\"",":","\"","i","n","v","a","l","i","d",
      "_","m","o","d","e","l","\"","}","}">>

B_top == \* {"message":"invalid_model"}
    <<"{","\"","m","e","s","s","a","g","e","\"",":","\"","i","n","v","a","l",
      "i","d","_","m","o","d","e","l","\"","}">>

B_bad_request == \* {"message":"bad request"}
    <<"{","\"","m","e","s","s","a","g","e","\"",":","\"","b","a","d"," ","r",
      "e","q","u","e","s","t","\"","}">>

B_plain == \* invalid_model
    <<"i","n","v","a","l","i","d","_","m","o","d","e","l">>

B_oops == \* oops
    <<"o","o","p","s">>

V_ok == \* ok
    <<"o","k">>

V_INVALID == \* INVALID_MODEL
    <<"I","N","V","A","L","I","D","_","M","O","D","E","L">>

V_spaced == \* Invalid model
    <<"I","n","v","a","l","i","d"," ","m","o","d","e","l">>

V_bad_request == \* bad request
    <<"b","a","d"," ","r","e","q","u","e","s","t">>

\* what JSON.parse(text) gives, as far as pplxFetch reads it: error.message,
\* message and choices[0].message.content, each <<>> when it is not there
Json(errorMessage, message, content) ==
    [json |-> TRUE, errorMessage |-> errorMessage, message |-> message,
     content |-> content]

\* JSON.parse(text) throws
NotJson == [json |-> FALSE, errorMessage |-> <<>>, message |-> <<>>, content |-> <<>>]

\* a response of the API: its status, its body and the body parsed
Reply(code, body, parsed) ==
    [settled |-> TRUE, status |-> code, text |-> body, parsed |-> parsed]

\* fetch rejects: no response at all
NetworkFailure == [settled |-> FALSE, status |-> 0, text |-> <<>>, parsed |-> NotJson]

Responses ==
    { Reply(200, B_answer, Json(<<>>, <<>>, V_ok)),
      Reply(200, B_nochoices, Json(<<>>, <<>>, <<>>)),
      Reply(200, B_html, NotJson),
      Reply(400, B_type_only, Json(<<>>, <<>>, <<>>)),
      Reply(400, B_upper, Json(V_INVALID, <<>>, <<>>)),
      Reply(400, B_spaced, Json(V_spaced, <<>>, <<>>)),
      Reply(400, B_top, Json(<<>>, X_invalid_model, <<>>)),
      Reply(400, B_bad_request, Json(<<>>, V_bad_request, <<>>)),
      Reply(400, B_plain, NotJson),
      Reply(401, B_upper, Json(V_INVALID, <<>>, <<>>)),
      Reply(404, B_plain, NotJson),
      Reply(500, B_oops, NotJson),
      NetworkFailure }

\* response.ok
ResponseOk(r) == r.status >= 200 /\ r.status <= 299

\* j?.error?.message || j?.message || text, text when JSON.parse throws
Reason(r) ==
    IF r.parsed.json /\ r.parsed.errorMessage # <<>> THEN r.parsed.errorMessage
    ELSE IF r.parsed.json /\ r.parsed.message # <<>> THEN r.parsed.message
    ELSE r.text

\* an Error with its status property; status 0 stands for an error that has
\* none
Thrown(code, message) ==
    [kind |-> "error", value |-> [status |-> code, message |-> message]]

\* what pplxFetch does with the response r of its request
pplxFetch(r) ==
    IF ~r.settled THEN Thrown(0, X_fetch_failed)
    ELSE IF ~ResponseOk(r)
    THEN Thrown(r.status, X_prefix \o NumText(r.status) \o X_colon \o Reason(r))
    ELSE IF ~r.parsed.json THEN Thrown(502, X_nonjson)
    ELSE IF r.parsed.content = <<>> THEN Thrown(502, X_nocontent)
    ELSE Returned("text", r.parsed.content)

\* /invalid_model/i.test(msg)
MatchesInvalidModel(msg) == Includes(ToLowerCase(msg), X_invalid_model)

\* the catch block of callPerplexity retries with any error of status 400
Retries_any400(e) == e.value.status = 400

\* e?.status === 400 && /invalid_model/i.test(msg)
Retries(e) == e.value.status = 400 /\ MatchesInvalidModel(e.value.message)

\* ---- the call ----
\* pplxFetch({ messages, model }): the request sent for the argument
Request(model) == Event("request", [arg |-> model, model |-> normalizeModelName(model)])

\* the model and fallback parameters: input holds the arguments passed
ModelOf(args) == IF args[1] = Missing THEN DEFAULT_PRIMARY_MODEL ELSE args[1]

FallbackOf(args) == IF args[2] = Missing THEN DEFAULT_FALLBACK_MODEL ELSE args[2]

\* callPerplexity settles with what pplxFetch returned or threw
PplxSettles(r, outcome) ==
    /\ trace' = Append(trace, Event("response", r))
    /\ pc' = "returned"
    /\ status' = IF outcome.kind = "error" THEN "rejected" ELSE "resolved"
    /\ result' = outcome

\* the catch block: the fallback request is sent
PplxFallsBack(r) ==
    /\ trace' = Append(Append(trace, Event("response", r)),
                       Request(FallbackOf(input)))
    /\ pc' = "fallback"
    /\ UNCHANGED <<status, result>>

PplxFrame ==
    UNCHANGED <<rev, entry, input, uaeCitations, called, urls, cleanedUrls, i,
                probes, settled, validUrls, probed, fetched, ret, citations,
                handlerVars, text, textType, sourceCount, op, limitVars>>

\* the first request answered
PplxAnswered(r, outcome) ==
    IF outcome.kind = "error" /\ Retries(outcome)
    THEN PplxFallsBack(r)
    ELSE PplxSettles(r, outcome)

CallPerplexity ==
    /\ entry = "callPerplexity"
    /\ pc = "start"
    /\ trace' = <<Request(ModelOf(input))>>
    /\ pc' = "await"
    /\ UNCHANGED <<status, result>>
    /\ PplxFrame

FirstResponds ==
    /\ entry = "callPerplexity"
    /\ pc = "await"
    /\ \E r \in Responses : PplxAnswered(r, pplxFetch(r))
    /\ PplxFrame

FallbackResponds ==
    /\ entry = "callPerplexity"
    /\ pc = "fallback"
    /\ \E r \in Responses : PplxSettles(r, pplxFetch(r))
    /\ PplxFrame

ModelArgs == {Missing, <<>>, M_sonar_pro, M_reasoning, M_sonar_small,
              M_llama_small, M_unknown}

FallbackArgs == {Missing, M_sonar, M_unknown}

InitPplx ==
    /\ rev = V151
    /\ entry = "callPerplexity"
    /\ \E model \in ModelArgs, fallback \in FallbackArgs : input = <<model, fallback>>
    /\ pc = "start"
    /\ uaeCitations = <<>>
    /\ called = FALSE
    /\ urls = <<>>
    /\ cleanedUrls = <<>>
    /\ i = 0
    /\ probes = <<>>
    /\ settled = <<>>
    /\ validUrls = <<>>
    /\ probed = <<>>
    /\ fetched = FALSE
    /\ status = "pending"
    /\ ret = <<>>
    /\ citations = <<>>
    /\ trace = <<>>
    /\ HandlerIdle
    /\ CiteIdle
    /\ LimiterIdle

NextPplx ==
    \/ CallPerplexity
    \/ FirstResponds
    \/ FallbackResponds

SpecPplx == InitPplx /\ [][NextPplx]_vars

(***************************************************************************)
(* Properties                                                              *)
(***************************************************************************)
NoDuplicates(list) == \A a, b \in 1..Len(list) : list[a] = list[b] => a = b

CleanedForms(list) ==
    IF list = None THEN {} ELSE {cleanUrl(list[k]) : k \in 1..Len(list)}

\* C1: the list verifyURLs (v15.1) returns holds only cleaned forms (cleanUrl)
\* of elements of the list it was called with, and holds no url twice
C1_CleanedAndUnique ==
    (rev = V151 /\ called /\ status = "resolved") =>
        /\ \A k \in 1..Len(ret) : ret[k] \in CleanedForms(urls)
        /\ NoDuplicates(ret)

RECURSIVE IsSubsequence(_, _)
IsSubsequence(a, b) ==
    IF a = <<>> THEN TRUE
    ELSE IF b = <<>> THEN FALSE
    ELSE IF Head(a) = Head(b) THEN IsSubsequence(Tail(a), Tail(b))
    ELSE IsSubsequence(a, Tail(b))

\* the elements of the argument in the form verifyURLs returns them
InputForms(r, list) ==
    IF list = None THEN <<>> ELSE IF r = V151 THEN MapCleanUrl(list) ELSE list

\* C2: the urls verifyURLs has collected, and the list it returns, keep the
\* relative order they had in the argument, in whatever order the probes of a
\* batch completed
C2_OrderPreserved ==
    called =>
        /\ IsSubsequence(validUrls, InputForms(rev, urls))
        /\ IsSubsequence(ret, InputForms(rev, urls))

\* two probes of the last batch completed in the reverse of their batch order,
\* both live, and verifyURLs returned their two distinct urls
C2_OutOfOrderCompletion ==
    /\ called
    /\ status = "resolved"
    /\ Len(ret) >= 2
    /\ ret[1] # ret[2]
    /\ \E a, b \in 1..Len(settled) :
          /\ a < b
          /\ settled[a] > settled[b]
          /\ probes[settled[a]].res = "true"
          /\ probes[settled[b]].res = "true"

\* C3: no probe rejects (a probe that is done resolved to true or to false)
\* and verifyURLs does not reject, whatever the fetches end in
C3_NeverRejects ==
    /\ status # "rejected"
    /\ \A k \in 1..Len(probes) :
          /\ probes[k].res # "reject"
          /\ IsDone(probes[k]) => probes[k].res \in {"true", "false"}

\* a probe resolved after its HEAD request and then its GET request failed
\* or was refused
C3_ResolvedAfterFailedGet ==
    /\ entry = "verifyURL"
    /\ Len(probes) = 1
    /\ IsDone(probes[1])
    /\ probes[1].res \in {"true", "false"}
    /\ Len(trace) >= 2
    /\ trace[Len(trace)].m = "GET"
    /\ trace[Len(trace)].o \in Failures

HostEndsWithAe(u) == EndsWith(ParseURL(u).hostname, DotAe)

IsAeUrl(u) == isValidUrl(u) /\ HostEndsWithAe(u)

\* C4: every url among the verified citations processPerplexityResponse /
\* searchWithPerplexity returns is a valid http(s) url (hostname of at least
\* MinHostLen characters) whose hostname ends with '.ae'
C4_VerifiedAreAeUrls ==
    (entry = "process" /\ pc = "returned" /\ ret # <<>>) =>
        \A k \in 1..Len(citations) : IsAeUrl(citations[k])

IsHead(e) == e.m = "HEAD"

IsGet(e) == e.m = "GET"

IsSleep(e) == e.m = "sleep"

IsRequest(e) == e.m \in {"HEAD", "GET"}

HeadEvents == SelectSeq(trace, IsHead)

GetEvents == SelectSeq(trace, IsGet)

SleepEvents == SelectSeq(trace, IsSleep)

Requests == SelectSeq(trace, IsRequest)

\* the probe of a direct call verifyURL(input[1])
Probing == entry = "verifyURL" /\ Len(probes) = 1

\* C5: in v15.1, when the first HEAD request of a probe fails with a network
\* error or a timeout, the probe waits BACKOFF_MS once, sends a second HEAD
\* request, and resolves only after that second request has settled
C5_RetriedOnceAfterBackoff ==
    (rev = V151 /\ Probing /\ trace # <<>> /\ trace[1].o \in Failures) =>
        /\ Len(trace) >= 2
        /\ trace[2] = Event("sleep", Timer(BACKOFF_MS))
        /\ Len(SleepEvents) = 1
        /\ Len(HeadEvents) <= MAX_ATTEMPTS
        /\ IsDone(probes[1]) => Len(HeadEvents) = MAX_ATTEMPTS

TimedOutTwice ==
    trace = <<Event("HEAD", AbortError), Event("sleep", Timer(BACKOFF_MS)),
              Event("HEAD", AbortError)>>

C7_NonAeFailureDead ==
    (rev = V151 /\ Probing /\ IsDone(probes[1])
        /\ ~HostEndsWithAe(cleanUrl(input[1]))
        /\ \A k \in 1..Len(Requests) : Requests[k].o \in Failures) =>
        probes[1].res = "false"

LastHead == HeadEvents[Len(HeadEvents)]

Refused(o) == o.kind = "response" /\ o.status \in {403, 405}

GetIssued == Len(GetEvents) > 0 \/ (Len(probes) = 1 /\ probes[1].pc = "get")

\* C8: the probe of a well-formed url issues a GET request only after a HEAD
\* request returned 403 or 405, and then exactly once; after any other HEAD
\* status it issues no GET request and resolves to true on 2xx/3xx and to
\* false otherwise
C8_GetOnlyAfter403or405 ==
    (Probing /\ HeadEvents # <<>> /\ isValidUrl(cleanUrl(input[1]))) =>
        /\ Len(GetEvents) <= 1
        /\ GetIssued <=> Refused(LastHead.o)
        /\ (LastHead.o.kind = "response" /\ ~Refused(LastHead.o)) =>
              /\ IsDone(probes[1])
              /\ probes[1].res = "true" <=> (Ok(LastHead.o) \/ Redirect(LastHead.o))

\* C9: one call of verifyURLs passes at most MAX_BATCH urls to verifyURL
C9_AtMostMaxBatchProbed == Len(probed) <= MAX_BATCH

\* every element of list is dropped by the filter of revision r
AllDropped(r, list) ==
    /\ list # None
    /\ \A k \in 1..Len(list) :
          IF r = V151 THEN ~isValidUrl(cleanUrl(list[k])) ELSE ~isUaeDomain(list[k])

\* C10: verifyURLs called with an empty or missing list, or with a list whose
\* elements are all dropped by the filter, returns the empty list and no
\* request is sent
C10_NothingToProbe ==
    (called /\ (IsEmpty(urls) \/ AllDropped(rev, urls))) =>
        /\ status = "resolved"
        /\ ret = <<>>
        /\ probed = <<>>
        /\ ~fetched

\* verifyURLs returned from a call with a list of two elements, both dropped
C10_AllDroppedReturned ==
    /\ called
    /\ urls # None
    /\ Len(urls) = 2
    /\ AllDropped(rev, urls)
    /\ status = "resolved"
    /\ ret = <<>>
    /\ ~fetched

\* C11: in v15.1, once the 30 s timer has fired with the search unsettled, the
\* handler goes on with an empty webSources to the generation of the answer
\* and sends the answer response unless the generation itself fails; the
\* search result that arrives later changes neither webSources nor the
\* web sources of the response
C11_DeadlineContinues ==
    deadline =>
        /\ webSources = <<>>
        /\ hpc \in {"openai", "sent"}
        /\ hpc = "sent" => response.webSources = <<>>
        /\ (hpc = "sent" /\ gen # "error") => response.status = 200

\* the search returned citations after the timer had fired and the answer
\* response had been sent without web sources
C11_LateSearchResult ==
    /\ deadline
    /\ pc = "returned"
    /\ citations # <<>>
    /\ hpc = "sent"
    /\ gen = "ok"
    /\ response.status = 200
    /\ response.webSources = <<>>

\* C12: when verifyURLs probed urls for the request and found none live, the response
\* carries no web sources, and it is not an error response unless the
\* generation of the answer failed
C12_NoLinksWhenNoneVerified ==
    (hpc = "sent" /\ ~deadline /\ called /\ status = "resolved" /\ probed # <<>>
        /\ ret = <<>>) =>
        /\ response.webSources = <<>>
        /\ gen # "error" => response.status = 200

\* the numbers of the markers of str outside [1, n], in text order
NumbersOutside(str, n) ==
    SelectSeq(MatchedNumbers(str), LAMBDA v : v < 1 \/ v > n)

NumbersInside(str, n) ==
    SelectSeq(MatchedNumbers(str), LAMBDA v : v >= 1 /\ v <= n)

\* C13: in the report of getValidationReport the valid and the invalid markers
\* partition the markers extractCitations finds: the total is their number,
\* the valid count and the invalid count add up to it, and the invalid markers
\* are exactly those whose number is outside [1, sourceCount]
C13_MarkersPartitioned ==
    op = "getValidationReport" =>
        /\ result.value.validation.totalCitationsFound = Len(extractCitations(text))
        /\ result.value.validation.validCitationsCount
             + result.value.invalidCitationsFound
             = result.value.validation.totalCitationsFound
        /\ result.value.invalidCitationNumbers = NumbersOutside(text, sourceCount)
        /\ result.value.validation.validCitationsCount
             = Len(NumbersInside(text, sourceCount))

\* a report on a text with a valid marker, the marker [0] and a marker above
\* sourceCount
C13_MixedMarkers ==
    /\ op = "getValidationReport"
    /\ result.value.validation.validCitationsCount >= 1
    /\ \E k \in 1..Len(result.value.invalidCitationNumbers) :
          result.value.invalidCitationNumbers[k] = 0
    /\ \E k \in 1..Len(result.value.invalidCitationNumbers) :
          result.value.invalidCitationNumbers[k] > sourceCount

StrictlyAscending(list) ==
    \A k \in 1..(Len(list) - 1) : list[k] < list[k + 1]

\* C15: the bookIds a handler returns are sorted ascending and hold no value
\* twice, in each of the three revisions that extract them
C15_BookIdsSortedDistinct ==
    result.kind = "bookIds" => StrictlyAscending(result.value)

\* str as whitespace collapsing and trimming leave it
Normalized(str) == Trim(CollapseSpaces(str))

\* C16 as stated: removeInvalidCitations applied to a text in which every
\* marker's number is <= sourceCount returns the text unchanged up to
\* whitespace collapsing and trimming
C16_UnchangedWhenAtMostN ==
    (op = "removeInvalidCitations" /\ textType = "string"
        /\ \A k \in 1..Len(MatchedNumbers(text)) :
              MatchedNumbers(text)[k] <= sourceCount) =>
        result.value = Normalized(text)

\* C16 amended: removeInvalidCitations applied to a text in which every
\* marker's number is in [1, sourceCount] returns the text unchanged up to
\* whitespace collapsing and trimming, so no marker is removed
C16_UnchangedWhenAllValid ==
    (op = "removeInvalidCitations" /\ textType = "string"
        /\ NumbersOutside(text, sourceCount) = <<>>) =>
        result.value = Normalized(text)

\* a text with markers, all valid, came back with its whitespace collapsed
C16_ValidMarkersKept ==
    /\ op = "removeInvalidCitations"
    /\ textType = "string"
    /\ MatchedNumbers(text) # <<>>
    /\ NumbersOutside(text, sourceCount) = <<>>
    /\ result.value # text
    /\ MatchedNumbers(result.value) = MatchedNumbers(text)

\* C17: the text removeInvalidCitations returns holds no marker whose number
\* is outside [1, sourceCount]
C17_NoInvalidMarkerLeft ==
    (op = "removeInvalidCitations" /\ textType = "string") =>
        NumbersOutside(result.value, sourceCount) = <<>>

\* C18: the cleanedText of the report is removeInvalidCitations(text) when a
\* marker is invalid and the text itself when none is; hasExternalReferences
\* holds exactly when an invalid marker was found, which is exactly when
\* validation.isValid does not
C18_CleanedTextAndFlag ==
    op = "getValidationReport" =>
        /\ result.value.cleanedText =
              IF NumbersOutside(text, sourceCount) # <<>>
              THEN removeInvalidCitations(text, sourceCount) ELSE text
        /\ result.value.hasExternalReferences <=> result.value.invalidCitationsFound > 0
        /\ result.value.hasExternalReferences <=> ~result.value.validation.isValid
        /\ result.value.invalidCitationsFound = Len(NumbersOutside(text, sourceCount))

\* a report on a text without invalid marker that cleaning would change:
\* its cleanedText is the text, character for character
C18_ValidTextUntouched ==
    /\ op = "getValidationReport"
    /\ textType = "string"
    /\ MatchedNumbers(text) # <<>>
    /\ ~result.value.hasExternalReferences
    /\ Normalized(text) # text
    /\ result.value.cleanedText = text

Ascending(list) ==
    \A k \in 1..(Len(list) - 1) : list[k] <= list[k + 1]

\* C19: the invalidCitationNumbers of the report are sorted ascending
C19_InvalidNumbersSorted ==
    op = "getValidationReport" => Ascending(result.value.invalidCitationNumbers)

\* C20: extractCitations and getValidationReport fail with an error when the
\* text is not a string or there is no source record
C20_MalformedInputRejected ==
    (op \in {"extractCitations", "getValidationReport"}
        /\ (textType # "string" \/ sourceCount <= 0)) =>
        result.kind = "error"

(***************************************************************************)
(* cleanUrl as a function of its argument (src/unnamed/part_000 59-75),    *)
(* on the argument of a direct call of verifyURL                           *)
(***************************************************************************)
\* verifyURL (v15.1) has been called and has cleaned its argument
CleanedArgument == rev = V151 /\ entry = "verifyURL" /\ pc # "start"

\* neither the trimmed string nor its decoded form is a valid URL
NeverValid(trimmed, decoded) ==
    /\ ~isValidUrl(trimmed)
    /\ decoded.ok => ~isValidUrl(decoded.s)

\* C21: cleanUrl is idempotent: cleaning the cleaned argument gives the
\* cleaned argument again, for every string, strings that are percent-encoded
\* more than once included
C21_CleanUrlIdempotent ==
    CleanedArgument =>
        cleanUrl(cleanUrl(input[1])) = cleanUrl(input[1])

\* C22: when neither the trimmed argument nor its single percent-decoded
\* form is a valid URL, cleanUrl returns the trimmed argument itself, not the
\* decoded form
C22_InvalidReturnedTrimmed ==
    (/\ CleanedArgument
     /\ NeverValid(Trim(input[1]), DecodeURIComponent(Trim(input[1])))) =>
        cleanUrl(input[1]) = Trim(input[1])

\* the requests the probe has sent: those that settled and the one in flight
OutboundCalls ==
    Len(Requests) + (IF Len(probes) = 1 /\ InFlight(probes[1]) THEN 1 ELSE 0)

\* C24: one top-level call of verifyURL sends at most two requests in all,
\* the HEAD attempts, the retry after a timeout and the GET fallback counted,
\* whatever the requests end in
C24_AtMostTwoCalls == (rev = V151 /\ Probing) => OutboundCalls <= 2

(***************************************************************************)
(* Termination of the probes.  A call that has not resolved awaits a       *)
(* fetch, which settles or is aborted by its timer (8 s for HEAD, 10 s for *)
(* GET), the backoff timer, or the continuation of a settled Promise.all;  *)
(* and every step lowers a measure that is a natural number, so no run     *)
(* takes infinitely many steps.                                            *)
(***************************************************************************)
\* the steps a probe at p can still take
ProbeRank(p) ==
    CASE p.pc = "done" -> 0
      [] p.pc = "get" -> 1
      [] p.pc = "backoff" -> 1 + 2 * (MAX_ATTEMPTS - p.attempt)
      [] p.pc = "head" -> 2 + 2 * (MAX_ATTEMPTS - p.attempt)

RECURSIVE SumRank(_)
SumRank(ps) == IF ps = <<>> THEN 0 ELSE ProbeRank(Head(ps)) + SumRank(Tail(ps))

\* more than the rank of a probe that starts
RankBound == 3 + 2 * MAX_ATTEMPTS

\* the urls no probe has been started for
Unstarted ==
    IF pc = "start" THEN (IF input = None THEN 0 ELSE Len(input))
    ELSE IF entry = "verifyURL" THEN 0
    ELSE Len(cleanedUrls) - Len(probed)

PcRank == CASE pc = "start" -> 2 [] pc = "await" -> 1 [] OTHER -> 0

Measure == RankBound * Unstarted + SumRank(probes) + PcRank

\* the direct call has resolved to a boolean
ProbeResolved ==
    /\ Len(probes) = 1
    /\ IsDone(probes[1])
    /\ probes[1].res \in {"true", "false"}

\* the call under analysis has resolved
CallResolved ==
    \/ entry = "verifyURL" /\ ProbeResolved
    \/ entry = "verifyURLs" /\ pc = "verified" /\ status = "resolved"

\* the call is about to be made, or awaits a fetch or the backoff timer of a
\* probe, or the continuation of its settled batch is ready to run
Pending ==
    \/ pc = "start"
    \/ /\ pc = "await"
       /\ \E k \in 1..Len(probes) : probes[k].pc \in {"head", "backoff", "get"}
    \/ /\ pc = "await"
       /\ entry = "verifyURLs"
       /\ AllDone(probes)

\* a probe never sends more than MAX_ATTEMPTS HEAD requests and one GET
AttemptsBounded ==
    Probing => (Len(HeadEvents) <= MAX_ATTEMPTS /\ Len(GetEvents) <= 1)

Probes == entry \in {"verifyURL", "verifyURLs"}

\* C25: every probe terminates: a call of verifyURL or verifyURLs that has
\* not resolved is never left waiting for anything but a fetch, the backoff
\* timer or its own continuation, every step brings it closer to its end,
\* and verifyURL resolves to a boolean after at most MAX_ATTEMPTS HEAD
\* requests and at most one GET request
C25_ProbesTerminate ==
    /\ [](Probes => (AttemptsBounded /\ Measure >= 0 /\ (CallResolved \/ Pending)))
    /\ [][Probes => Measure' < Measure]_vars

\* a probe that resolved after two HEAD requests and a GET request
C25_ResolvedAfterThreeRequests ==
    /\ rev = V151
    /\ entry = "verifyURL"
    /\ ProbeResolved
    /\ Len(HeadEvents) = MAX_ATTEMPTS
    /\ Len(GetEvents) = 1

\* the probes that have not resolved
Unresolved == SelectSeq(probes, LAMBDA p : ~IsDone(p))

\* C26: within one call of verifyURLs (v15.1) at most batchSize probes are in
\* flight at any time, and the probes of a batch start only when every probe
\* of the batch before has resolved
C26_BoundedFanOut ==
    /\ []((rev = V151 /\ called) =>
            (Len(probes) <= batchSize /\ Len(Unresolved) <= batchSize))
    /\ [][(rev = V151 /\ called /\ probed' # probed) => AllDone(probes)]_vars

\* the second batch is in flight: three probes await their HEAD fetch after
\* the three of the first batch resolved
C26_SecondBatchInFlight ==
    /\ rev = V151
    /\ called
    /\ i = batchSize
    /\ Len(probed) = 2 * batchSize
    /\ Len(Unresolved) = batchSize
    /\ \A k \in 1..Len(probes) : InFlight(probes[k])

(***************************************************************************)
(* The rate limiter                                                        *)
(***************************************************************************)
\* the calls for ip admitted from time s on and less than RATE_WINDOW later
AdmittedFrom(ip, s) ==
    SelectSeq(admitted[ip], LAMBDA t : s <= t /\ t - s < RATE_WINDOW)

\* C28: for every ip and every sequence of calls whose timestamps never
\* decrease, at most RATE_LIMIT calls whose timestamps lie within an interval
\* shorter than RATE_WINDOW are admitted, and the list stored for an ip never
\* holds more than RATE_LIMIT timestamps
C28_AtMostLimitPerWindow ==
    \A ip \in ClientIps :
        /\ Len(Stored(requestCounts, ip)) <= RATE_LIMIT
        /\ \A s \in RangeOf(admitted[ip]) : Len(AdmittedFrom(ip, s)) <= RATE_LIMIT

\* an ip that used up its limit was refused, and admitted again once the
\* window had passed: more than RATE_LIMIT calls admitted in all
C28_AdmittedAgainAfterWindow ==
    /\ entry = "checkRateLimit"
    /\ \E ip \in ClientIps :
          /\ Len(admitted[ip]) > RATE_LIMIT
          /\ lastCheck.ip = ip
          /\ lastCheck.returned
          /\ Len(Stored(lastCheck.before, ip)) = RATE_LIMIT

\* the decision checkRateLimit(ip) would take at time at on the Map rc
Decision(rc, ip, at) == checkRateLimit(rc, ip, at).returned

\* C29: a call of checkRateLimit that returns false leaves the Map unchanged
\* for every ip, and a call for one ip, admitted or refused, changes neither
\* the timestamps stored for another ip nor the decision taken for it
C29_OtherIpsUntouched ==
    [][entry = "checkRateLimit" =>
         /\ ~lastCheck'.returned => requestCounts' = requestCounts
         /\ \A b \in ClientIps \ {lastCheck'.ip} :
               /\ (b \in DOMAIN requestCounts') = (b \in DOMAIN requestCounts)
               /\ Stored(requestCounts', b) = Stored(requestCounts, b)
               /\ \A d \in Advances :
                     Decision(requestCounts', b, now' + d)
                         = Decision(requestCounts, b, now' + d)]_vars

\* a call was refused while another ip had timestamps stored, and a call was
\* admitted while another ip had used up its limit
C29_RefusedBesideOther ==
    /\ entry = "checkRateLimit"
    /\ calls > 0
    /\ ~lastCheck.returned
    /\ \E b \in ClientIps \ {lastCheck.ip} :
          Len(Stored(requestCounts, b)) = RATE_LIMIT - 1

(***************************************************************************)
(* /api/chat: the checks before the first outbound call                    *)
(***************************************************************************)
\* the handler has called neither the web search, nor a URL probe, nor the
\* text generation
NoOutboundCall ==
    /\ pc = "start"
    /\ ~called
    /\ ~fetched
    /\ probed = <<>>
    /\ gen = "none"

Handled == entry = "chat" /\ hpc # "idle"

\* C30: in /api/chat the rate-limit check comes before every outbound call:
\* a request checkRateLimit refuses is answered 429, and an admitted request
\* without a query is answered 400, in both cases without a call of the web
\* search, of a URL probe or of the text generation
C30_ChecksPrecedeCalls ==
    /\ Handled => (calls = 1 /\ lastCheck.ip = ClientIp)
    /\ (Handled /\ ~lastCheck.returned) =>
          (hpc = "sent" /\ response = RateLimitResponse /\ NoOutboundCall)
    /\ (Handled /\ lastCheck.returned /\ NoQuery(query)) =>
          (hpc = "sent" /\ response = QueryRequiredResponse /\ NoOutboundCall)
    /\ (entry = "chat" /\ ~NoOutboundCall) =>
          (lastCheck.returned /\ ~NoQuery(query))

\* a request was refused by the limiter
C30_RefusedRequest ==
    /\ Handled
    /\ ~lastCheck.returned
    /\ ~NoQuery(query)
    /\ response.status = 429

(***************************************************************************)
(* forceCitations                                                          *)
(***************************************************************************)
\* an answer of sentences and sentence punctuation: it starts with a letter
\* and ends with a full stop, an exclamation mark or a question mark
SentencesOnly(answer) ==
    /\ Len(answer) > MinSentenceLen
    /\ IsAlpha(answer[1])
    /\ answer[Len(answer)] \in EndMarks

Forced == entry = "forceCitations" /\ op = "forceCitations"

\* C23: forceCitations applied to a non-empty answer of sentences and
\* sentence punctuation, with at least one book, returns a text that holds
\* at least one citation marker
C23_AnswerLeavesCited ==
    (Forced /\ sourceCount >= 1 /\ SentencesOnly(text)) =>
        extractCitations(result.value) # <<>>

(***************************************************************************)
(* callPerplexity                                                          *)
(***************************************************************************)
PplxCall == entry = "callPerplexity"

\* the requests sent so far and the responses received so far
IsUpstreamRequest(e) == e.m = "request"

IsUpstreamResponse(e) == e.m = "response"

UpstreamRequests == SelectSeq(trace, IsUpstreamRequest)

UpstreamResponses == SelectSeq(trace, IsUpstreamResponse)

\* the request whose response r is has failed, with the error pplxFetch throws
Failed(r) == pplxFetch(r).kind = "error"

\* it failed with status 400 and a message matching invalid_model
FailedInvalidModel(r) ==
    /\ Failed(r)
    /\ r.status = 400
    /\ Includes(ToLowerCase(pplxFetch(r).value.message), X_invalid_model)

\* the error of the failed request k is what the call threw, and no request
\* followed it
Propagated(k) ==
    /\ status = "rejected"
    /\ result = pplxFetch(UpstreamResponses[k].o)
    /\ Len(UpstreamRequests) = k

\* C27: callPerplexity sends at most two requests; the second one carries
\* the fallback model and is sent only after the first failed with status
\* 400 and a message matching invalid_model; any other failure of the first
\* request and any failure of the fallback request is thrown to the caller
\* and no request follows it
C27_OneFallbackOnly ==
    PplxCall =>
        /\ Len(UpstreamRequests) <= 2
        /\ Len(UpstreamRequests) = 2 =>
              /\ FailedInvalidModel(UpstreamResponses[1].o)
              /\ UpstreamRequests[2].o.arg = FallbackOf(input)
        /\ (Len(UpstreamResponses) >= 1 /\ Failed(UpstreamResponses[1].o)
                /\ ~FailedInvalidModel(UpstreamResponses[1].o)) => Propagated(1)
        /\ (Len(UpstreamResponses) = 2 /\ Failed(UpstreamResponses[2].o)) =>
              Propagated(2)

\* a call whose first request failed with 400 and invalid_model and whose
\* fallback request failed too: two requests, the second error thrown
C27_FallbackFailed ==
    /\ PplxCall
    /\ Len(UpstreamRequests) = 2
    /\ Len(UpstreamResponses) = 2
    /\ FailedInvalidModel(UpstreamResponses[1].o)
    /\ Failed(UpstreamResponses[2].o)
    /\ status = "rejected"
    /\ result = pplxFetch(UpstreamResponses[2].o)

====
